---- MODULE Spec2Model ----
(***************************************************************************)
(* A model of the Rect kernel of the fnord 2D geometry library             *)
(* (src/core/geometry): Pos, Size, Anchor and Rect with its constructors,  *)
(* anchor setters and getters, relational queries, signed distance and     *)
(* closest point.                                                          *)
(*                                                                         *)
(* Numbers.  The library computes in f32.  A number of the model is an     *)
(* integer and stands for the f32 of the same value.  Every input is drawn *)
(* from the even integers, so that each halving (half, f32::midpoint) the  *)
(* operations perform on it is exact, as it is in f32 for these values;    *)
(* sums, differences, min and max of small integers are exact in f32 too.  *)
(* The one irrational operation, f32::sqrt in Pos::distance, is kept       *)
(* symbolic: see f32_sqrt.  Rounding of f32 is therefore outside the       *)
(* model.                                                                  *)
(***************************************************************************)
EXTENDS Integers, FiniteSets, Sequences, TLC

\* Bounds of the model.
\* Coordinates of input points are 0, 2, .., 2 * MaxGrid.
MaxGrid == 3
\* Lengths of input sizes are -2, 0, 2, .., 2 * MaxLen (-2: an ill-formed size).
MaxLen == 2
\* A rect that was moved or changed keeps its corners within
\* -Reach .. 2 * MaxGrid + Reach.
Reach == 1

Coords == {2 * k : k \in 0..MaxGrid}
Lens == {2 * k : k \in (-1)..MaxLen}
Offsets == {-2, 0, 2}

VARIABLES
    self,       \* the Rect value operated on
    size0,      \* the size of self when it was constructed
    debug,      \* TRUE iff the build has debug_assertions enabled
    panicked,   \* TRUE iff the last operation panicked
    last,       \* the last operation and its arguments
    ret         \* the value the last call returned

vars == <<self, size0, debug, panicked, last, ret>>

----------------------------------------------------------------------------
\* core::geometry::util_impl

half(value) == value \div 2

is_positive(value) == value >= 0

f32_min(a, b) == IF a < b THEN a ELSE b

f32_max(a, b) == IF a > b THEN a ELSE b

midpoint(a, b) == (a + b) \div 2

\* f32::sqrt of a non-negative integer: the integer root when the radicand is
\* a perfect square, symbolic otherwise.  A value [root |-> FALSE, v |-> n]
\* is the number n, a value [root |-> TRUE, v |-> n] is the square root of n.
Num(n) == [root |-> FALSE, v |-> n]

f32_sqrt(n) ==
    IF \E k \in 0..n : k * k = n
    THEN Num(CHOOSE k \in 0..n : k * k = n)
    ELSE [root |-> TRUE, v |-> n]

\* d < 0 for a value of the form above.
IsNegative(d) == ~d.root /\ d.v < 0

\* The square of a non-negative value of the form above.
Squared(d) == IF d.root THEN d.v ELSE d.v * d.v

----------------------------------------------------------------------------
\* Pos

pos(x, y) == [x |-> x, y |-> y]

Pos_ZERO == pos(0, 0)

add_dims(p, x, y) == pos(p.x + x, p.y + y)

sub_dims(p, x, y) == pos(p.x - x, p.y - y)

Pos_min(p, rhs) == pos(f32_min(p.x, rhs.x), f32_min(p.y, rhs.y))

Pos_max(p, rhs) == pos(f32_max(p.x, rhs.x), f32_max(p.y, rhs.y))

Pos_lt(p, other) == p.x < other.x /\ p.y < other.y

Pos_le(p, other) == p.x <= other.x /\ p.y <= other.y

Pos_eq(p, other) == p.x = other.x /\ p.y = other.y

Pos_ge(p, other) == p.x >= other.x /\ p.y >= other.y

Pos_gt(p, other) == p.x > other.x /\ p.y > other.y

length_squared(p) == p.x * p.x + p.y * p.y

distance_squared(p, other) == length_squared(sub_dims(other, p.x, p.y))

\* A plausible slip: the squared distance, the root forgotten.
distance_no_sqrt(p, other) == Num(distance_squared(p, other))

distance(p, other) == f32_sqrt(distance_squared(p, other))

\* Size

Size_new(width, height) == [width |-> width, height |-> height]

Size_half(s) == Size_new(half(s.width), half(s.height))

half_width(s) == half(s.width)

half_height(s) == half(s.height)

Size_is_positive(s) == s.width >= 0 /\ s.height >= 0

\* Anchor

Anchors == {"LeftTop", "LeftCenter", "LeftBottom", "BottomCenter",
            "RightBottom", "RightCenter", "RightTop", "TopCenter", "Center"}

PERIMETER == Anchors \ {"Center"}

\* A plausible slip: the two opposite corners of the left-bottom / right-top
\* diagonal mirrored on one axis only.
invert_diagonal_slip(a) ==
    CASE a = "LeftTop"      -> "RightBottom"
      [] a = "LeftCenter"   -> "RightCenter"
      [] a = "LeftBottom"   -> "RightBottom"
      [] a = "BottomCenter" -> "TopCenter"
      [] a = "RightBottom"  -> "LeftTop"
      [] a = "RightCenter"  -> "LeftCenter"
      [] a = "RightTop"     -> "LeftTop"
      [] a = "TopCenter"    -> "BottomCenter"
      [] a = "Center"       -> "Center"

invert(a) ==
    CASE a = "LeftTop"      -> "RightBottom"
      [] a = "LeftCenter"   -> "RightCenter"
      [] a = "LeftBottom"   -> "RightTop"
      [] a = "BottomCenter" -> "TopCenter"
      [] a = "RightBottom"  -> "LeftTop"
      [] a = "RightCenter"  -> "LeftCenter"
      [] a = "RightTop"     -> "LeftBottom"
      [] a = "TopCenter"    -> "BottomCenter"
      [] a = "Center"       -> "Center"

----------------------------------------------------------------------------
\* Rect: constructors.  Each constructor is the value it returns when no
\* debug assertion fires; X_asserts is the conjunction of the debug
\* assertions the call evaluates.

Rect(min, max) == [min |-> min, max |-> max]

Rect_ZERO == Rect(Pos_ZERO, Pos_ZERO)

from_min_max(min, max) == Rect(min, max)

\* A plausible slip: the assertion tests one axis only.
from_min_max_asserts_x_only(min, max) == min.x <= max.x

from_min_max_asserts(min, max) == Pos_le(min, max)

Rect_new(x, y, width, height) ==
    from_min_max(pos(x, y), pos(x + width, y + height))

Rect_new_asserts(x, y, width, height) ==
    /\ Size_is_positive(Size_new(width, height))
    /\ from_min_max_asserts(pos(x, y), pos(x + width, y + height))

from_min_size(min, size) ==
    from_min_max(min, add_dims(min, size.width, size.height))

from_min_size_asserts(min, size) ==
    /\ Size_is_positive(size)
    /\ from_min_max_asserts(min, add_dims(min, size.width, size.height))

square_from_min_size(min, side_length) ==
    from_min_max(min, pos(min.x + side_length, min.y + side_length))

square_from_min_size_asserts(min, side_length) ==
    /\ is_positive(side_length)
    /\ from_min_max_asserts(min, pos(min.x + side_length, min.y + side_length))

centered(center, size) ==
    LET half_size == Size_new(size.width \div 2, size.height \div 2)
    IN  from_min_max(sub_dims(center, half_size.width, half_size.height),
                     add_dims(center, half_size.width, half_size.height))

centered_asserts(center, size) ==
    LET half_size == Size_new(size.width \div 2, size.height \div 2)
    IN  /\ Size_is_positive(size)
        /\ from_min_max_asserts(
               sub_dims(center, half_size.width, half_size.height),
               add_dims(center, half_size.width, half_size.height))

centered_square(center, side_length) ==
    LET half_size == side_length \div 2
    IN  from_min_max(sub_dims(center, half_size, half_size),
                     add_dims(center, half_size, half_size))

centered_square_asserts(center, side_length) ==
    LET half_size == side_length \div 2
    IN  /\ is_positive(side_length)
        /\ from_min_max_asserts(sub_dims(center, half_size, half_size),
                                add_dims(center, half_size, half_size))

\* A plausible slip: the bottom-center arm subtracts half the height, as it
\* does half the width.
anchored_pivot_min_half_height(anchor, pivot, size) ==
    CASE anchor = "LeftTop"      -> pivot
      [] anchor = "LeftCenter"   -> pos(pivot.x, pivot.y - half_height(size))
      [] anchor = "LeftBottom"   -> pos(pivot.x, pivot.y - size.height)
      [] anchor = "BottomCenter" ->
             pos(pivot.x - half_width(size), pivot.y - half_height(size))
      [] anchor = "RightBottom"  ->
             pos(pivot.x - size.width, pivot.y - size.height)
      [] anchor = "RightCenter"  ->
             pos(pivot.x - size.width, pivot.y - half_height(size))
      [] anchor = "RightTop"     -> pos(pivot.x - size.width, pivot.y)
      [] anchor = "TopCenter"    -> pos(pivot.x - half_width(size), pivot.y)
      [] anchor = "Center"       ->
             pos(pivot.x - Size_half(size).width,
                 pivot.y - Size_half(size).height)

\* The min corner from_anchored_pivot hands to from_min_size.
anchored_pivot_min(anchor, pivot, size) ==
    CASE anchor = "LeftTop"      -> pivot
      [] anchor = "LeftCenter"   -> pos(pivot.x, pivot.y - half_height(size))
      [] anchor = "LeftBottom"   -> pos(pivot.x, pivot.y - size.height)
      [] anchor = "BottomCenter" ->
             pos(pivot.x - half_width(size), pivot.y - size.height)
      [] anchor = "RightBottom"  ->
             pos(pivot.x - size.width, pivot.y - size.height)
      [] anchor = "RightCenter"  ->
             pos(pivot.x - size.width, pivot.y - half_height(size))
      [] anchor = "RightTop"     -> pos(pivot.x - size.width, pivot.y)
      [] anchor = "TopCenter"    -> pos(pivot.x - half_width(size), pivot.y)
      [] anchor = "Center"       ->
             pos(pivot.x - Size_half(size).width,
                 pivot.y - Size_half(size).height)

from_anchored_pivot(anchor, pivot, size) ==
    from_min_size(anchored_pivot_min(anchor, pivot, size), size)

from_anchored_pivot_asserts(anchor, pivot, size) ==
    /\ Size_is_positive(size)
    /\ from_min_size_asserts(anchored_pivot_min(anchor, pivot, size), size)

\* A plausible slip: the two points taken as min and max as given.
from_points_unsorted(points) == Rect(points[1], points[2])

from_points(points) ==
    Rect(Pos_min(points[1], points[2]), Pos_max(points[2], points[1]))

----------------------------------------------------------------------------
\* Rect: dimensions and the nine anchor getters and setters.

width(r) == r.max.x - r.min.x

height(r) == r.max.y - r.min.y

size(r) == Size_new(width(r), height(r))

left_top(r) == r.min

right_top(r) == pos(r.max.x, r.min.y)

left_bottom(r) == pos(r.min.x, r.max.y)

right_bottom(r) == r.max

left_center(r) == pos(r.min.x, midpoint(r.min.y, r.max.y))

top_center(r) == pos(midpoint(r.min.x, r.max.x), r.min.y)

right_center(r) == pos(r.max.x, midpoint(r.min.y, r.max.y))

bottom_center(r) == pos(midpoint(r.min.x, r.max.x), r.max.y)

center(r) == pos(midpoint(r.min.x, r.max.x), midpoint(r.min.y, r.max.y))

set_left_top(r, p) ==
    Rect(p, add_dims(p, size(r).width, size(r).height))

set_right_top(r, p) ==
    Rect(pos(p.x - size(r).width, p.y), pos(p.x, p.y + size(r).height))

set_left_bottom(r, p) ==
    Rect(pos(p.x, p.y - size(r).height), pos(p.x + size(r).width, p.y))

set_right_bottom(r, p) ==
    Rect(pos(p.x - size(r).width, p.y - size(r).height), p)

set_left_center(r, p) ==
    LET half_h == half_height(size(r))
    IN  Rect(pos(p.x, p.y - half_h), pos(p.x + size(r).width, p.y + half_h))

set_top_center(r, p) ==
    LET half_w == half_width(size(r))
    IN  Rect(pos(p.x - half_w, p.y), pos(p.x + half_w, p.y + size(r).height))

\* A plausible slip: the body of set_right_bottom.
set_right_center_as_bottom(r, p) ==
    Rect(pos(p.x - (r.max.x - r.min.x), p.y - (r.max.y - r.min.y)), p)

set_right_center(r, p) ==
    LET half_h == half_height(size(r))
    IN  Rect(pos(p.x - size(r).width, p.y - half_h), pos(p.x, p.y + half_h))

set_bottom_center(r, p) ==
    LET half_w == half_width(size(r))
    IN  Rect(pos(p.x - half_w, p.y - size(r).height), pos(p.x + half_w, p.y))

set_center(r, p) ==
    LET half_size == Size_half(size(r))
    IN  Rect(pos(p.x - half_size.width, p.y - half_size.height),
             pos(p.x + half_size.width, p.y + half_size.height))

place_anchor(r, a, p) ==
    CASE a = "LeftTop"      -> set_left_top(r, p)
      [] a = "LeftCenter"   -> set_left_center(r, p)
      [] a = "LeftBottom"   -> set_left_bottom(r, p)
      [] a = "BottomCenter" -> set_bottom_center(r, p)
      [] a = "RightBottom"  -> set_right_bottom(r, p)
      [] a = "RightCenter"  -> set_right_center(r, p)
      [] a = "RightTop"     -> set_right_top(r, p)
      [] a = "TopCenter"    -> set_top_center(r, p)
      [] a = "Center"       -> set_center(r, p)

with_placed_anchor(r, a, p) == place_anchor(r, a, p)

move_to_anchor(r, a) ==
    CASE a = "LeftTop"      -> set_right_bottom(r, left_top(r))
      [] a = "LeftCenter"   -> set_right_center(r, left_center(r))
      [] a = "LeftBottom"   -> set_right_top(r, left_bottom(r))
      [] a = "BottomCenter" -> set_top_center(r, bottom_center(r))
      [] a = "RightBottom"  -> set_left_top(r, right_bottom(r))
      [] a = "RightCenter"  -> set_left_center(r, right_center(r))
      [] a = "RightTop"     -> set_left_bottom(r, right_top(r))
      [] a = "TopCenter"    -> set_bottom_center(r, top_center(r))
      [] a = "Center"       -> r

moved_to_anchor(r, a) == move_to_anchor(r, a)

\* A plausible slip: only the min corner moves.
translate_min_only(r, offset) ==
    Rect(pos(r.min.x + offset.x, r.min.y + offset.y), r.max)

translate(r, offset) ==
    Rect(pos(r.min.x + offset.x, r.min.y + offset.y),
         pos(r.max.x + offset.x, r.max.y + offset.y))

anchor(r, a) ==
    CASE a = "LeftTop"      -> left_top(r)
      [] a = "LeftCenter"   -> left_center(r)
      [] a = "LeftBottom"   -> left_bottom(r)
      [] a = "BottomCenter" -> bottom_center(r)
      [] a = "RightBottom"  -> right_bottom(r)
      [] a = "RightCenter"  -> right_center(r)
      [] a = "RightTop"     -> right_top(r)
      [] a = "TopCenter"    -> top_center(r)
      [] a = "Center"       -> center(r)

----------------------------------------------------------------------------
\* Rect: relational queries.

\* A plausible slip: the max edge inclusive.
contains_closed(r, p) ==
    /\ r.min.x <= p.x /\ r.min.y <= p.y
    /\ r.max.x >= p.x /\ r.max.y >= p.y

contains(r, p) ==
    /\ r.min.x <= p.x /\ r.min.y <= p.y
    /\ r.max.x > p.x /\ r.max.y > p.y

contains_rect(r, other) ==
    /\ r.min.x <= other.min.x /\ r.max.x >= other.max.x
    /\ r.min.y <= other.min.y /\ r.max.y >= other.max.y

\* A plausible slip: the min-side comparisons inclusive.
intersects_inclusive_min(r, other) ==
    /\ other.min.x <= r.max.x /\ other.min.y <= r.max.y
    /\ other.max.x > r.min.x /\ other.max.y > r.min.y

intersects(r, other) ==
    /\ other.min.x < r.max.x /\ other.min.y < r.max.y
    /\ other.max.x > r.min.x /\ other.max.y > r.min.y

\* Option<Rect>
None == [some |-> FALSE]

Some(v) == [some |-> TRUE, value |-> v]

\* A plausible slip: min and max exchanged, which yields the bounding rect.
intersection_bounding(r, other) ==
    IF ~intersects(r, other)
    THEN None
    ELSE LET left   == f32_min(r.min.x, other.min.x)
             top    == f32_min(r.min.y, other.min.y)
             right  == f32_max(r.max.x, other.max.x)
             bottom == f32_max(r.max.y, other.max.y)
         IN  Some(from_min_max(pos(left, top), pos(right, bottom)))

intersection(r, other) ==
    IF ~intersects(r, other)
    THEN None
    ELSE LET left   == f32_max(r.min.x, other.min.x)
             top    == f32_max(r.min.y, other.min.y)
             right  == f32_min(r.max.x, other.max.x)
             bottom == f32_min(r.max.y, other.max.y)
         IN  Some(from_min_max(pos(left, top), pos(right, bottom)))

intersection_asserts(r, other) ==
    intersects(r, other) =>
        from_min_max_asserts(
            pos(f32_max(r.min.x, other.min.x), f32_max(r.min.y, other.min.y)),
            pos(f32_min(r.max.x, other.max.x), f32_min(r.max.y, other.max.y)))

outside_rect(r, rect) ==
    \/ r.max.x < rect.min.x \/ r.max.y < rect.min.y
    \/ r.min.x >= rect.max.x \/ r.min.y >= rect.max.y

----------------------------------------------------------------------------
\* Rect: splitting.  Each split returns a pair of rects, built as struct
\* literals (no assertion).

split_from_left(r, split) ==
    LET lhs_max == pos(r.min.x + split, r.max.y)
    IN  <<Rect(r.min, lhs_max), Rect(pos(lhs_max.x, r.min.y), r.max)>>

split_from_top(r, split) ==
    LET lhs_max == pos(r.max.x, r.min.y + split)
    IN  <<Rect(r.min, lhs_max), Rect(pos(r.min.x, lhs_max.y), r.max)>>

\* A plausible slip: the pair in the order (left, right).
split_from_right_left_first(r, split) ==
    LET lhs_min == pos(r.max.x - split, r.min.y)
    IN  <<Rect(r.min, pos(lhs_min.x, r.max.y)), Rect(lhs_min, r.max)>>

split_from_right(r, split) ==
    LET lhs_min == pos(r.max.x - split, r.min.y)
    IN  <<Rect(lhs_min, r.max), Rect(r.min, pos(lhs_min.x, r.max.y))>>

split_from_bottom(r, split) ==
    LET lhs_min == pos(r.min.x, r.max.y - split)
    IN  <<Rect(lhs_min, r.max), Rect(r.min, pos(r.max.x, lhs_min.y))>>

----------------------------------------------------------------------------
\* Rect: quadrants.  A QuadSubdivide holds its four quadrants in the order
\* left_top, right_top, left_bottom, right_bottom (array index 0..3, sequence
\* index 1..4).

into_quadrants(r) ==
    LET mid_x == midpoint(r.min.x, r.max.x)
        mid_y == midpoint(r.min.y, r.max.y)
        mid   == pos(mid_x, mid_y)
    IN  [quadrants |->
            <<from_min_max(pos(r.min.x, r.min.y), mid),
              from_min_max(pos(mid_x, r.min.y), pos(r.max.x, mid_y)),
              from_min_max(pos(r.min.x, mid_y), pos(mid_x, r.max.y)),
              from_min_max(mid, pos(r.max.x, r.max.y))>>]

into_quadrants_asserts(r) ==
    LET mid_x == midpoint(r.min.x, r.max.x)
        mid_y == midpoint(r.min.y, r.max.y)
        mid   == pos(mid_x, mid_y)
    IN  /\ from_min_max_asserts(pos(r.min.x, r.min.y), mid)
        /\ from_min_max_asserts(pos(mid_x, r.min.y), pos(r.max.x, mid_y))
        /\ from_min_max_asserts(pos(r.min.x, mid_y), pos(mid_x, r.max.y))
        /\ from_min_max_asserts(mid, pos(r.max.x, r.max.y))

QuadSubdivide_left_top(q) == q.quadrants[0 + 1]

QuadSubdivide_right_top(q) == q.quadrants[1 + 1]

QuadSubdivide_left_bottom(q) == q.quadrants[2 + 1]

QuadSubdivide_right_bottom(q) == q.quadrants[3 + 1]

\* a | b on natural numbers.
RECURSIVE bit_or(_, _)
bit_or(a, b) ==
    IF a = 0 /\ b = 0
    THEN 0
    ELSE (IF a % 2 = 1 \/ b % 2 = 1 THEN 1 ELSE 0)
             + 2 * bit_or(a \div 2, b \div 2)

\* A plausible slip: the column shifted instead of the row.
QuadSubdivide_index_row_major(q, index) ==
    q.quadrants[bit_or(index[1] * 2, index[2]) + 1]

\* Index<(u32, u32)>: index is the pair (index.0, index.1).
QuadSubdivide_index(q, index) ==
    q.quadrants[bit_or(index[1], index[2] * 2) + 1]

QuadSubdivide_index_asserts(q, index) == bit_or(index[1], index[2]) <= 1

----------------------------------------------------------------------------
\* Rect: handle rects.  handle_rect matches on (anchor, placement); the three
\* operators below are its arms for each placement.

Placements == {"Inside", "Middle", "Outside"}

handle_inside(r, a, hsize) ==
    CASE a = "LeftTop"      ->
             Rect(r.min, pos(r.min.x + hsize, r.min.y + hsize))
      [] a = "LeftCenter"   ->
             Rect(pos(r.min.x, r.min.y + hsize),
                  pos(r.min.x + hsize, r.max.y - hsize))
      [] a = "LeftBottom"   ->
             Rect(pos(r.min.x, r.max.y - hsize), pos(r.min.x + hsize, r.max.y))
      [] a = "BottomCenter" ->
             Rect(pos(r.min.x + hsize, r.max.y - hsize),
                  pos(r.max.x - hsize, r.max.y))
      [] a = "RightBottom"  ->
             Rect(pos(r.max.x - hsize, r.max.y - hsize), r.max)
      [] a = "RightCenter"  ->
             Rect(pos(r.max.x - hsize, r.min.y + hsize),
                  pos(r.max.x, r.max.y - hsize))
      [] a = "RightTop"     ->
             Rect(pos(r.max.x - hsize, r.min.y), pos(r.max.x, r.min.y + hsize))
      [] a = "TopCenter"    ->
             Rect(pos(r.min.x + hsize, r.min.y),
                  pos(r.max.x - hsize, r.min.y + hsize))
      [] a = "Center"       ->
             Rect(pos(r.min.x + hsize, r.min.y + hsize),
                  pos(r.max.x - hsize, r.max.y - hsize))

\* The Middle arms, given the half_size each of them computes first.
handle_middle_by(r, a, half_size) ==
    CASE a = "LeftTop"      ->
             Rect(pos(r.min.x - half_size, r.min.y - half_size),
                  pos(r.min.x + half_size, r.min.y + half_size))
      [] a = "LeftCenter"   ->
             Rect(pos(r.min.x - half_size, r.min.y + half_size),
                  pos(r.min.x + half_size, r.max.y - half_size))
      [] a = "LeftBottom"   ->
             Rect(pos(r.min.x - half_size, r.max.y - half_size),
                  pos(r.min.x + half_size, r.max.y + half_size))
      [] a = "BottomCenter" ->
             Rect(pos(r.min.x + half_size, r.max.y - half_size),
                  pos(r.max.x - half_size, r.max.y + half_size))
      [] a = "RightBottom"  ->
             Rect(pos(r.max.x - half_size, r.max.y - half_size),
                  pos(r.max.x + half_size, r.max.y + half_size))
      [] a = "RightCenter"  ->
             Rect(pos(r.max.x - half_size, r.min.y + half_size),
                  pos(r.max.x + half_size, r.max.y - half_size))
      [] a = "RightTop"     ->
             Rect(pos(r.max.x - half_size, r.min.y - half_size),
                  pos(r.max.x + half_size, r.min.y + half_size))
      [] a = "TopCenter"    ->
             Rect(pos(r.min.x + half_size, r.min.y - half_size),
                  pos(r.max.x - half_size, r.min.y + half_size))
      [] a = "Center"       ->
             Rect(pos(r.min.x + half_size, r.min.y + half_size),
                  pos(r.max.x - half_size, r.max.y - half_size))

\* A plausible slip: the size used where its half is meant.
handle_middle_unhalved(r, a, hsize) == handle_middle_by(r, a, hsize)

handle_middle(r, a, hsize) == handle_middle_by(r, a, half(hsize))

handle_outside(r, a, hsize) ==
    CASE a = "LeftTop"      ->
             Rect(pos(r.min.x - hsize, r.min.y - hsize), r.min)
      [] a = "LeftCenter"   ->
             Rect(pos(r.min.x - hsize, r.min.y), left_bottom(r))
      [] a = "LeftBottom"   ->
             Rect(pos(r.min.x - hsize, r.max.y), pos(r.min.x, r.max.y + hsize))
      [] a = "BottomCenter" ->
             Rect(left_bottom(r), pos(r.max.x, r.max.y + hsize))
      [] a = "RightBottom"  ->
             Rect(r.max, pos(r.max.x + hsize, r.max.y + hsize))
      [] a = "RightCenter"  ->
             Rect(right_top(r), pos(r.max.x + hsize, r.max.y))
      [] a = "RightTop"     ->
             Rect(pos(r.max.x, r.min.y - hsize), pos(r.max.x + hsize, r.min.y))
      [] a = "TopCenter"    ->
             Rect(pos(r.min.x, r.min.y - hsize), right_top(r))
      [] a = "Center"       -> r

handle_rect(r, a, placement, hsize) ==
    CASE placement = "Inside"  -> handle_inside(r, a, hsize)
      [] placement = "Middle"  -> handle_middle(r, a, hsize)
      [] placement = "Outside" -> handle_outside(r, a, hsize)

----------------------------------------------------------------------------
\* Margin and Padding: two structs of the same four i8 fields, in the same
\* order, both repr(C); to_padding and from_padding transmute one into the
\* other, which copies the four bytes in place.

Margin_new(left, top, right, bottom) ==
    [left |-> left, top |-> top, right |-> right, bottom |-> bottom]

Margin_same(all) == Margin_new(all, all, all, all)

Padding_new(left, top, right, bottom) ==
    [left |-> left, top |-> top, right |-> right, bottom |-> bottom]

\* The bytes of a Margin or Padding value, in the order of the declaration.
repr_C(v) == <<v.left, v.top, v.right, v.bottom>>

\* A plausible slip: Padding declared in the order top, right, bottom, left.
to_padding_clockwise(m) ==
    LET bytes == repr_C(m)
    IN  [top |-> bytes[1], right |-> bytes[2],
         bottom |-> bytes[3], left |-> bytes[4]]

to_padding(m) ==
    LET bytes == repr_C(m)
    IN  Padding_new(bytes[1], bytes[2], bytes[3], bytes[4])

from_padding(padding) ==
    LET bytes == repr_C(padding)
    IN  Margin_new(bytes[1], bytes[2], bytes[3], bytes[4])

\* Rect with Margin and Padding.  A field of a margin or padding enters the
\* f32 arithmetic with its integer value.

add_padding(r, padding) ==
    from_min_max(pos(r.min.x + padding.left, r.min.y + padding.top),
                 pos(r.max.x - padding.right, r.max.y - padding.bottom))

add_padding_asserts(r, padding) ==
    from_min_max_asserts(
        pos(r.min.x + padding.left, r.min.y + padding.top),
        pos(r.max.x - padding.right, r.max.y - padding.bottom))

add_margin_centered(r, margin) ==
    from_min_max(pos(r.min.x - margin.left, r.min.y - margin.top),
                 pos(r.max.x + margin.right, r.max.y + margin.bottom))

add_margin_centered_asserts(r, margin) ==
    from_min_max_asserts(
        pos(r.min.x - margin.left, r.min.y - margin.top),
        pos(r.max.x + margin.right, r.max.y + margin.bottom))

sub_margin_centered(r, margin) ==
    from_min_max(pos(r.min.x + margin.left, r.min.y + margin.top),
                 pos(r.max.x - margin.right, r.max.y - margin.bottom))

sub_margin_centered_asserts(r, margin) ==
    from_min_max_asserts(
        pos(r.min.x + margin.left, r.min.y + margin.top),
        pos(r.max.x - margin.right, r.max.y - margin.bottom))

\* impl Add<Margin> for Rect and impl Add<Padding> for Rect.
Rect_add_Margin(r, rhs) == add_margin_centered(r, rhs)

Rect_add_Padding(r, rhs) == add_padding(r, rhs)

----------------------------------------------------------------------------
\* Rect: signed distance and closest point.  Both return either a value or
\* the panic of their local fn invalid(message).

invalid(message) == [panic |-> TRUE, message |-> message]

Returns(v) == [panic |-> FALSE, value |-> v]

\* A plausible slip: the tuple in the order the four tests are declared.
band_declared_order(r, p) ==
    <<p.x >= r.min.x, p.y >= r.min.y, p.x < r.max.x, p.y < r.max.y>>

\* The tuple both functions match on.
band(r, p) == <<p.x >= r.min.x, p.x < r.max.x, p.y >= r.min.y, p.y < r.max.y>>

\* A plausible slip: the smallest of the four edge distances instead of the
\* largest.
sdf_inside_farthest(r, p) ==
    LET dtl == r.min.x - p.x
        dtr == p.x - r.max.x
        dtt == r.min.y - p.y
        dtb == p.y - r.max.y
    IN  f32_min(f32_min(f32_min(dtl, dtr), dtt), dtb)

\* The (true, true, true, true) arm of sdf.
sdf_inside(r, p) ==
    LET dtl == r.min.x - p.x
        dtr == p.x - r.max.x
        dtt == r.min.y - p.y
        dtb == p.y - r.max.y
    IN  f32_max(f32_max(f32_max(dtl, dtr), dtt), dtb)

sdf(r, p) ==
    LET m == band(r, p)
    IN  CASE m = <<TRUE, TRUE, TRUE, TRUE>> -> Returns(Num(sdf_inside(r, p)))
          [] m = <<TRUE, TRUE, TRUE, FALSE>> -> Returns(Num(p.y - r.max.y))
          [] m = <<TRUE, TRUE, FALSE, TRUE>> -> Returns(Num(r.min.y - p.y))
          [] m = <<TRUE, TRUE, FALSE, FALSE>> ->
                 invalid("min.y is greater than max.y")
          [] m = <<TRUE, FALSE, TRUE, TRUE>> -> Returns(Num(p.x - r.max.x))
          [] m = <<TRUE, FALSE, TRUE, FALSE>> ->
                 Returns(distance(right_bottom(r), p))
          [] m = <<TRUE, FALSE, FALSE, TRUE>> ->
                 Returns(distance(right_top(r), p))
          [] m = <<TRUE, FALSE, FALSE, FALSE>> ->
                 invalid("min.y is greater than max.y")
          [] m = <<FALSE, TRUE, TRUE, TRUE>> -> Returns(Num(r.min.x - p.x))
          [] m = <<FALSE, TRUE, TRUE, FALSE>> ->
                 Returns(distance(left_bottom(r), p))
          [] m = <<FALSE, TRUE, FALSE, TRUE>> ->
                 Returns(distance(left_top(r), p))
          [] m = <<FALSE, TRUE, FALSE, FALSE>> ->
                 invalid("min.y is greater than max.y")
          [] m = <<FALSE, FALSE, TRUE, TRUE>> ->
                 invalid("min.x is greater than max.x")
          [] m = <<FALSE, FALSE, TRUE, FALSE>> ->
                 invalid("min.x is greater than max.x")
          [] m = <<FALSE, FALSE, FALSE, TRUE>> ->
                 invalid("min.x is greater than max.x")
          [] m = <<FALSE, FALSE, FALSE, FALSE>> ->
                 invalid("min is greater than max")

\* A plausible slip: the bottom test snaps to the top edge.
closest_inside_bottom_to_top(r, p) ==
    LET dtl      == p.x - r.min.x
        min0     == dtl
        closest0 == pos(r.min.x, p.y)
        dtr      == r.max.x - p.x
        min1     == IF dtr < min0 THEN dtr ELSE min0
        closest1 == IF dtr < min0 THEN pos(r.max.x, closest0.y) ELSE closest0
        dtt      == p.y - r.min.y
        min2     == IF dtt < min1 THEN dtt ELSE min1
        closest2 == IF dtt < min1 THEN pos(p.x, r.min.y) ELSE closest1
        dtb      == r.max.y - p.y
        closest3 == IF dtb < min2 THEN pos(p.x, r.min.y) ELSE closest2
    IN  closest3

\* The (true, true, true, true) arm of closest_point: the running minimum
\* over the left, right, top and bottom edge, in that order.
closest_inside(r, p) ==
    LET dtl      == p.x - r.min.x
        min0     == dtl
        closest0 == pos(r.min.x, p.y)
        dtr      == r.max.x - p.x
        min1     == IF dtr < min0 THEN dtr ELSE min0
        closest1 == IF dtr < min0 THEN pos(r.max.x, closest0.y) ELSE closest0
        dtt      == p.y - r.min.y
        min2     == IF dtt < min1 THEN dtt ELSE min1
        closest2 == IF dtt < min1 THEN pos(p.x, r.min.y) ELSE closest1
        dtb      == r.max.y - p.y
        closest3 == IF dtb < min2 THEN pos(p.x, r.max.y) ELSE closest2
    IN  closest3

closest_point(r, p) ==
    LET m == band(r, p)
    IN  CASE m = <<TRUE, TRUE, TRUE, TRUE>> -> Returns(closest_inside(r, p))
          [] m = <<TRUE, TRUE, TRUE, FALSE>> -> Returns(pos(p.x, r.max.y))
          [] m = <<TRUE, TRUE, FALSE, TRUE>> -> Returns(pos(p.x, r.min.y))
          [] m = <<TRUE, TRUE, FALSE, FALSE>> ->
                 invalid("min.y is greater than max.y")
          [] m = <<TRUE, FALSE, TRUE, TRUE>> -> Returns(pos(r.max.x, p.y))
          [] m = <<TRUE, FALSE, TRUE, FALSE>> -> Returns(r.max)
          [] m = <<TRUE, FALSE, FALSE, TRUE>> -> Returns(right_top(r))
          [] m = <<TRUE, FALSE, FALSE, FALSE>> ->
                 invalid("min.y is greater than max.y")
          [] m = <<FALSE, TRUE, TRUE, TRUE>> -> Returns(pos(r.min.x, p.y))
          [] m = <<FALSE, TRUE, TRUE, FALSE>> -> Returns(left_bottom(r))
          [] m = <<FALSE, TRUE, FALSE, TRUE>> -> Returns(left_top(r))
          [] m = <<FALSE, TRUE, FALSE, FALSE>> ->
                 invalid("min.y is greater than max.y")
          [] m = <<FALSE, FALSE, TRUE, TRUE>> ->
                 invalid("min.x is greater than max.x")
          [] m = <<FALSE, FALSE, TRUE, FALSE>> ->
                 invalid("min.x is greater than max.x")
          [] m = <<FALSE, FALSE, FALSE, TRUE>> ->
                 invalid("min.x is greater than max.x")
          [] m = <<FALSE, FALSE, FALSE, FALSE>> ->
                 invalid("min is greater than max")

snap_to_rect(p, r) == closest_point(r, p)

----------------------------------------------------------------------------
\* impl PartialOrd<Pos> for Pos.  An Ordering is its name; unreachable!() is
\* a panic.

\* A plausible slip: the order a derive would give, x first and then y.
partial_cmp_lexicographic(p, other) ==
    CASE p.x < other.x -> Some("Less")
      [] p.x > other.x -> Some("Greater")
      [] p.y < other.y -> Some("Less")
      [] p.y > other.y -> Some("Greater")
      [] OTHER         -> Some("Equal")

partial_cmp(p, other) ==
    LET lt == Pos_lt(p, other)
        gt == Pos_gt(p, other)
        eq == Pos_eq(p, other)
    IN  CASE lt /\ ~eq /\ ~gt  -> Some("Less")
          [] ~lt /\ eq /\ ~gt  -> Some("Equal")
          [] ~lt /\ ~eq /\ gt  -> Some("Greater")
          [] ~lt /\ ~eq /\ ~gt -> None
          [] OTHER             -> invalid("unreachable")

----------------------------------------------------------------------------
\* Cardinal and Pos::cardinal.

\* enum Cardinal: the variants in the order of their discriminants 0..7.
Cardinal_repr == <<"Nw", "W", "Sw", "S", "Se", "E", "Ne", "N">>

Cardinals == {Cardinal_repr[i] : i \in 1..8}

\* c as usize
Cardinal_bits(c) == CHOOSE bits \in 0..7 : Cardinal_repr[bits + 1] = c

\* A plausible slip: the two entries of RANKS exchanged.
Cardinal_rank_swapped(c) ==
    LET RANKS == <<"Primary", "Secondary">>
    IN  RANKS[(Cardinal_bits(c) % 2) + 1]

Cardinal_rank(c) ==
    LET RANKS == <<"Secondary", "Primary">>
    IN  RANKS[(Cardinal_bits(c) % 2) + 1]

Rank_is_primary(rank) == rank = "Primary"

Rank_is_secondary(rank) == rank = "Secondary"

Cardinal_is_primary(c) == Rank_is_primary(Cardinal_rank(c))

Cardinal_is_secondary(c) == Rank_is_secondary(Cardinal_rank(c))

\* The directions at 0, 45, .., 315 degrees, counter-clockwise, y up.
OctantDirs ==
    <<pos(1, 0), pos(1, 1), pos(0, 1), pos(-1, 1),
      pos(-1, 0), pos(-1, -1), pos(0, -1), pos(1, -1)>>

\* The angle between the vectors (x, y) and d is less than 22.5 degrees:
\* the cosine is positive and its square exceeds (2 + sqrt 2) / 4, which for
\* integers is A > 0 and A * A > 2 * B * B with the A and B below.  No
\* integer vector lies on a 22.5 degree boundary.
WithinOctant(x, y, d) ==
    LET dt == x * d.x + y * d.y
        B  == (x * x + y * y) * (d.x * d.x + d.y * d.y)
        A  == 4 * dt * dt - 2 * B
    IN  dt > 0 /\ A > 0 /\ A * A > 2 * B * B

\* floor(normalize_angle(theta + FRAC_PI_8) / FRAC_PI_4) & 0b111 for
\* theta = atan2(-p.y, p.x): the k in 0..7 with theta within 22.5 degrees of
\* k * 45 degrees; atan2(-0.0, 0.0) is -0.0, which gives 0.
octant(p) ==
    IF p.x = 0 /\ p.y = 0
    THEN 0
    ELSE CHOOSE k \in 0..7 : WithinOctant(p.x, -p.y, OctantDirs[k + 1])

\* The octant transmuted into a Cardinal: the variant of that discriminant.
cardinal(p) == Cardinal_repr[octant(p) + 1]

----------------------------------------------------------------------------
\* Size::swap_dims, Rect::swapped_lengths, Rect::with_size and set_size.

swap_dims(s) == Size_new(s.height, s.height)

swapped_lengths(r) == from_min_size(r.min, swap_dims(size(r)))

swapped_lengths_asserts(r) == from_min_size_asserts(r.min, swap_dims(size(r)))

with_size(r, s) ==
    from_min_max(r.min, add_dims(r.max, s.width, s.height))

with_size_asserts(r, s) ==
    from_min_max_asserts(r.min, add_dims(r.max, s.width, s.height))

\* The rect after set_size.
set_size(r, s) == Rect(r.min, add_dims(r.min, s.width, s.height))

with_size_centered(r, s) ==
    LET mid_point == center(r)
        half_size == Size_half(s)
    IN  from_min_max(pos(mid_point.x - half_size.width,
                         mid_point.y - half_size.height),
                     pos(mid_point.x + half_size.width,
                         mid_point.y + half_size.height))

\* core::math::lerp.  t is 0 or 1 in the model.
lerp(a, b, t) == a + (b - a) * t

----------------------------------------------------------------------------
\* Rect::subdivision_containing_rect.  The lengths of the inputs are even and
\* the counts are 1 or 2, so the cell lengths are integers: positive, zero
\* (a receiver without width or height) or negative (an ill-formed receiver).

sub_offset(r, offset) ==
    from_min_max(pos(r.min.x - offset.x, r.min.y - offset.y),
                 pos(r.max.x - offset.x, r.max.y - offset.y))

sub_offset_asserts(r, offset) ==
    from_min_max_asserts(pos(r.min.x - offset.x, r.min.y - offset.y),
                         pos(r.max.x - offset.x, r.max.y - offset.y))

\* (a / b).floor() as i32 for f32 a and b of integer value.  A divisor 0 is
\* +0.0 here (a difference of equal numbers): a / b is then NaN for a = 0,
\* and the cast of NaN is 0; it is +inf for a > 0 and -inf for a < 0, and the
\* cast saturates at i32::MAX and i32::MIN.
floor_quotient(a, b) ==
    IF b = 0
    THEN IF a = 0 THEN 0 ELSE IF a > 0 THEN 2147483647 ELSE -2147483647 - 1
    ELSE IF b > 0 THEN a \div b ELSE (-a) \div (-b)

\* p.div_dims(x, y).floor().to_ituple()
cell_of(p, x, y) == <<floor_quotient(p.x, x), floor_quotient(p.y, y)>>

subdivision_containing_rect(r, rect, cols, rows) ==
    IF ~contains_rect(r, rect)
    THEN None
    ELSE LET cell_width  == size(r).width \div cols
             cell_height == size(r).height \div rows
             inner_rect  == sub_offset(rect, r.min)
             cell_min    == cell_of(inner_rect.min, cell_width, cell_height)
             cell_max    == cell_of(inner_rect.max, cell_width, cell_height)
             min         == pos(cell_min[1] * cell_width,
                                cell_min[2] * cell_height)
             max         == add_dims(min, cell_width, cell_height)
         IN  IF cell_min # cell_max
             THEN Some(r)
             ELSE Some(from_min_max(min, max))

subdivision_containing_rect_asserts(r, rect, cols, rows) ==
    contains_rect(r, rect) =>
        LET cell_width  == size(r).width \div cols
            cell_height == size(r).height \div rows
            inner_rect  == sub_offset(rect, r.min)
            cell_min    == cell_of(inner_rect.min, cell_width, cell_height)
            cell_max    == cell_of(inner_rect.max, cell_width, cell_height)
            min         == pos(cell_min[1] * cell_width,
                               cell_min[2] * cell_height)
        IN  /\ sub_offset_asserts(rect, r.min)
            /\ cell_min = cell_max =>
                   from_min_max_asserts(
                       min, add_dims(min, cell_width, cell_height))

----------------------------------------------------------------------------
\* NineSlice and Rect::inflate.

inflate(r, expand) ==
    from_min_max(pos(r.min.x - expand, r.min.y - expand),
                 pos(r.max.x + expand, r.max.y + expand))

inflate_asserts(r, expand) ==
    from_min_max_asserts(pos(r.min.x - expand, r.min.y - expand),
                         pos(r.max.x + expand, r.max.y + expand))

\* A plausible slip: center_top takes the anchor of center_bottom.
NineSlice_from_rect_bottom_twice(rect, placement, hsize) ==
    [left_top      |-> handle_rect(rect, "LeftTop", placement, hsize),
     center_top    |-> handle_rect(rect, "BottomCenter", placement, hsize),
     right_top     |-> handle_rect(rect, "RightTop", placement, hsize),
     left_center   |-> handle_rect(rect, "LeftCenter", placement, hsize),
     center        |-> handle_rect(rect, "Center", placement, hsize),
     right_center  |-> handle_rect(rect, "RightCenter", placement, hsize),
     left_bottom   |-> handle_rect(rect, "LeftBottom", placement, hsize),
     center_bottom |-> handle_rect(rect, "BottomCenter", placement, hsize),
     right_bottom  |-> handle_rect(rect, "RightBottom", placement, hsize)]

NineSlice_from_rect(rect, placement, hsize) ==
    [left_top      |-> handle_rect(rect, "LeftTop", placement, hsize),
     center_top    |-> handle_rect(rect, "TopCenter", placement, hsize),
     right_top     |-> handle_rect(rect, "RightTop", placement, hsize),
     left_center   |-> handle_rect(rect, "LeftCenter", placement, hsize),
     center        |-> handle_rect(rect, "Center", placement, hsize),
     right_center  |-> handle_rect(rect, "RightCenter", placement, hsize),
     left_bottom   |-> handle_rect(rect, "LeftBottom", placement, hsize),
     center_bottom |-> handle_rect(rect, "BottomCenter", placement, hsize),
     right_bottom  |-> handle_rect(rect, "RightBottom", placement, hsize)]

----------------------------------------------------------------------------
\* Pos::perp_cw, perp_ccw and dot.

perp_cw(p) == pos(-p.y, p.x)

perp_ccw(p) == pos(p.y, p.x)

dot(p, other) == p.x * other.x + p.y * other.y

----------------------------------------------------------------------------
\* Align and Axial.

Aligns == {"Min", "Center", "Max"}

align_min(a, min, max, length) ==
    CASE a = "Min"    -> min
      [] a = "Center" ->
             LET align     == min + half(max - min)
                 half_size == length * 2
             IN  align - half_size
      [] a = "Max"    -> max - length

align_max(a, min, max, length) ==
    CASE a = "Min"    -> min + length
      [] a = "Center" ->
             LET align     == min + half(max - min)
                 half_size == half(length)
             IN  align + half_size
      [] a = "Max"    -> max

Axials == {"Right", "Up", "Left", "Down"}

opposite(d) ==
    CASE d = "Right" -> "Left"
      [] d = "Up"    -> "Down"
      [] d = "Left"  -> "Right"
      [] d = "Down"  -> "Right"

----------------------------------------------------------------------------
\* Input sets.

Points == [x : Coords, y : Coords]

\* The points the queries are asked about: every integer point of the grid.
Probes == [x : 0..(2 * MaxGrid), y : 0..(2 * MaxGrid)]

Sizes == [width : Lens, height : Lens]

AllRects == [min : Points, max : Points]

WellFormed(r) == r.min.x <= r.max.x /\ r.min.y <= r.max.y

InReach(r) ==
    \A c \in {r.min.x, r.min.y, r.max.x, r.max.y} :
        -Reach <= c /\ c <= 2 * MaxGrid + Reach

\* The lengths a rect is split at: every integer from just below 0 to just
\* above the largest extent.
SplitLens == (-1)..(2 * MaxGrid + 1)

\* The sizes of a handle.
HandleSizes == {2 * k : k \in 0..MaxLen}

\* The values of a field of a Margin or a Padding (i8).
MarginVals == {-2, 0, 2}

Margins == [left : MarginVals, top : MarginVals,
            right : MarginVals, bottom : MarginVals]

\* The vectors a direction is asked of: every integer vector around 0.
Vectors == [x : (-MaxLen)..MaxLen, y : (-MaxLen)..MaxLen]

\* The numbers of columns and of rows of a subdivision.
Counts == {1, 2}

\* The offsets a rect is moved by.
Moves == [x : Offsets, y : Offsets]

\* The points an anchor of a rect is placed at and its bounds are set to,
\* and the corners of the rects it is extended to fit: the corners of the
\* grid.
Marks == [x : {0, 2 * MaxGrid}, y : {0, 2 * MaxGrid}]

\* The sizes a rect is resized to, and the sizes added to it.
Resizes == [width : {-2, 2}, height : {-2, 2}]

\* The paddings and margins applied to a rect.
Insets == {m \in Margins : m.right = m.top /\ m.bottom = m.left}

\* The numbers of cells Rect::move_on_grid moves by.
GridSteps == {-1, 0, 1}

\* The uv coordinates Rect::set_uv_pos is given: the corners of the unit
\* square.
UVs == [x : {0, 1}, y : {0, 1}]

\* The factors a size is scaled by.
Scalars == {0, 1, 2}

Void == "void"

----------------------------------------------------------------------------
\* The life of one Rect value: it is constructed (Init), then changed by the
\* methods of Rect that take &mut self, by the assignment operators and by
\* writes to its public fields.  A failed debug assertion is a panic, after
\* which nothing runs.
\*
\* size0 is the size self had after the last call other than place_anchor,
\* move_to_anchor and translate: the size a run of these three starts from.
\* last is the constructor call, then the kind of the last call after it:
\* "moved" for these three, "other" for any other.

\* The rects the model follows: the corners are within reach and the extents
\* are even, so that each halving the methods perform (half of a length,
\* midpoint of two bounds) is exact.
Representable(r) ==
    InReach(r) /\ width(r) % 2 = 0 /\ height(r) % 2 = 0

\* The state after the constructor call `call` that returns r unless one of
\* its debug assertions (conjunction ok) fails.
Constructed(call, r, ok) ==
    /\ last = call
    /\ panicked = (debug /\ ~ok)
    /\ self = IF debug /\ ~ok THEN Rect_ZERO ELSE r
    /\ size0 = size(self)
    /\ ret = Void

Init ==
    /\ debug \in BOOLEAN
    /\ \/ \E min \in Points, max \in Points :
              Constructed([op |-> "from_min_max", min |-> min, max |-> max],
                          from_min_max(min, max),
                          from_min_max_asserts(min, max))
       \/ \E p \in Points, s \in Sizes :
              Constructed([op |-> "new", pos |-> p, size |-> s],
                          Rect_new(p.x, p.y, s.width, s.height),
                          Rect_new_asserts(p.x, p.y, s.width, s.height))
       \/ \E p \in Points, s \in Sizes :
              Constructed([op |-> "from_min_size", pos |-> p, size |-> s],
                          from_min_size(p, s), from_min_size_asserts(p, s))
       \/ \E p \in Points, l \in Lens :
              Constructed([op |-> "square_from_min_size", pos |-> p,
                           size |-> Size_new(l, l)],
                          square_from_min_size(p, l),
                          square_from_min_size_asserts(p, l))
       \/ \E p \in Points, s \in Sizes :
              Constructed([op |-> "centered", pos |-> p, size |-> s],
                          centered(p, s), centered_asserts(p, s))
       \/ \E p \in Points, l \in Lens :
              Constructed([op |-> "centered_square", pos |-> p,
                           size |-> Size_new(l, l)],
                          centered_square(p, l), centered_square_asserts(p, l))
       \/ \E a \in Anchors, p \in Points, s \in Sizes :
              Constructed([op |-> "from_anchored_pivot", anchor |-> a,
                           pos |-> p, size |-> s],
                          from_anchored_pivot(a, p, s),
                          from_anchored_pivot_asserts(a, p, s))
       \/ \E p0 \in Points, p1 \in Points :
              Constructed([op |-> "from_points", points |-> <<p0, p1>>],
                          from_points(<<p0, p1>>), TRUE)

\* Rect::place_anchor, and the nine setters set_left_top .. set_center it
\* hands the position to, which a caller may also call directly.
PlaceAnchor ==
    /\ ~panicked
    /\ \E a \in Anchors, p \in Marks :
           /\ Representable(place_anchor(self, a, p))
           /\ self' = place_anchor(self, a, p)
    /\ last' = [op |-> "moved"]
    /\ UNCHANGED <<size0, debug, panicked, ret>>

\* Rect::move_to_anchor
MoveToAnchor ==
    /\ ~panicked
    /\ \E a \in Anchors :
           /\ Representable(move_to_anchor(self, a))
           /\ self' = move_to_anchor(self, a)
    /\ last' = [op |-> "moved"]
    /\ UNCHANGED <<size0, debug, panicked, ret>>

\* Rect::translate, and AddAssign<Pos> for Rect, which calls it.
Translate ==
    /\ ~panicked
    /\ \E offset \in Moves :
           /\ Representable(translate(self, offset))
           /\ self' = translate(self, offset)
    /\ last' = [op |-> "moved"]
    /\ UNCHANGED <<size0, debug, panicked, ret>>

\* The calls below leave a rect r in self, or panic on a failed debug
\* assertion and leave self as it was.  The call is followed when r is
\* representable.

\* Rect::fix
Fix ==
    /\ ~panicked
    /\ \E r \in {Rect(Pos_min(self.min, self.max),
                      Pos_max(self.max, self.min))} :
           /\ Representable(r)
           /\ self' = r
           /\ size0' = size(r)
    /\ last' = [op |-> "other"]
    /\ UNCHANGED <<debug, panicked, ret>>

\* The rect a resizing call builds and the conjunction of the debug
\* assertions of the constructor that builds it.
Outcome(r, ok) == [rect |-> r, ok |-> ok]

\* The outcomes of set_size(s), set_size_centered(s) and
\* set_size_anchored(s, a) for each anchor a on r.  The last two build the
\* rect with a constructor (Rect::with_size_centered, Rect::with_size_anchored)
\* and inherit its debug assertions.
resized(r, s) ==
    {Outcome(set_size(r, s), TRUE),
     Outcome(with_size_centered(r, s),
             from_min_max_asserts(with_size_centered(r, s).min,
                                  with_size_centered(r, s).max))}
    \cup {Outcome(from_anchored_pivot(a, anchor(r, a), s),
                  from_anchored_pivot_asserts(a, anchor(r, a), s)) :
              a \in Anchors}

\* Rect::set_size, set_size_centered, set_size_anchored.
SetSize ==
    /\ ~panicked
    /\ \E s \in Resizes : \E out \in resized(self, s) :
           /\ Representable(out.rect)
           /\ panicked' = (debug /\ ~out.ok)
           /\ self' = IF debug /\ ~out.ok THEN self ELSE out.rect
           /\ size0' = size(self')
    /\ last' = [op |-> "other"]
    /\ UNCHANGED <<debug, ret>>

\* Rect::set_width, set_width_centered, set_width_right.
SetWidth ==
    /\ ~panicked
    /\ \E w \in Lens :
           LET new_half_width == half(w)
               cur_half_width == half(width(self))
               mid_x          == self.min.x + cur_half_width
           IN  \E r \in {[self EXCEPT !.max.x = self.min.x + w],
                         [self EXCEPT !.min.x = mid_x - new_half_width,
                                      !.max.x = mid_x + new_half_width],
                         [self EXCEPT !.min.x = self.max.x - w]} :
               /\ Representable(r)
               /\ self' = r
               /\ size0' = size(r)
    /\ last' = [op |-> "other"]
    /\ UNCHANGED <<debug, panicked, ret>>

\* Rect::set_height, set_height_centered, set_height_bottom.
SetHeight ==
    /\ ~panicked
    /\ \E h \in Lens :
           LET new_half_height == half(h)
               cur_half_height == half(height(self))
               mid_y           == self.min.y + cur_half_height
           IN  \E r \in {[self EXCEPT !.max.y = self.min.y + h],
                         [self EXCEPT !.min.y = mid_y - new_half_height,
                                      !.max.y = mid_y + new_half_height],
                         [self EXCEPT !.min.y = self.max.y - h]} :
               /\ Representable(r)
               /\ self' = r
               /\ size0' = size(r)
    /\ last' = [op |-> "other"]
    /\ UNCHANGED <<debug, panicked, ret>>

\* Rect::set_left, set_right, set_top, set_bottom: the edge moves and the
\* length on its axis is kept.
SetEdge ==
    /\ ~panicked
    /\ \E v \in Coords :
           \E r \in {[self EXCEPT !.min.x = v, !.max.x = v + width(self)],
                     [self EXCEPT !.min.x = v - width(self), !.max.x = v],
                     [self EXCEPT !.min.y = v, !.max.y = v + height(self)],
                     [self EXCEPT !.min.y = v - height(self), !.max.y = v]} :
           /\ Representable(r)
           /\ self' = r
           /\ size0' = size(r)
    /\ last' = [op |-> "other"]
    /\ UNCHANGED <<debug, panicked, ret>>

\* Rect::set_left_bound, set_right_bound, set_top_bound, set_bottom_bound.
SetEdgeBound ==
    /\ ~panicked
    /\ \E v \in Coords :
           \E r \in {[self EXCEPT !.min.x = v], [self EXCEPT !.max.x = v],
                     [self EXCEPT !.min.y = v], [self EXCEPT !.max.y = v]} :
           /\ Representable(r)
           /\ self' = r
           /\ size0' = size(r)
    /\ last' = [op |-> "other"]
    /\ UNCHANGED <<debug, panicked, ret>>

\* Rect::set_left_top_bound, set_right_top_bound, set_left_bottom_bound,
\* set_right_bottom_bound.
SetCornerBound ==
    /\ ~panicked
    /\ \E p \in Marks :
           \E r \in {[self EXCEPT !.min = p],
                     [self EXCEPT !.max.x = p.x, !.min.y = p.y],
                     [self EXCEPT !.min.x = p.x, !.max.y = p.y],
                     [self EXCEPT !.max = p]} :
           /\ Representable(r)
           /\ self' = r
           /\ size0' = size(r)
    /\ last' = [op |-> "other"]
    /\ UNCHANGED <<debug, panicked, ret>>

\* The rect after place_anchor_bound, through the set_*_bound method each arm
\* calls: one bound (an edge) or two (a corner) are overwritten, the others
\* stay; the Center arm calls set_center.
place_anchor_bound(r, a, p) ==
    CASE a = "LeftTop"      -> [r EXCEPT !.min = p]
      [] a = "LeftCenter"   -> [r EXCEPT !.min.x = p.x]
      [] a = "LeftBottom"   -> [r EXCEPT !.min.x = p.x, !.max.y = p.y]
      [] a = "BottomCenter" -> [r EXCEPT !.max.y = p.y]
      [] a = "RightBottom"  -> [r EXCEPT !.max = p]
      [] a = "RightCenter"  -> [r EXCEPT !.max.x = p.x]
      [] a = "RightTop"     -> [r EXCEPT !.max.x = p.x, !.min.y = p.y]
      [] a = "TopCenter"    -> [r EXCEPT !.min.y = p.y]
      [] a = "Center"       -> set_center(r, p)

PlaceAnchorBound ==
    /\ ~panicked
    /\ \E a \in Anchors, p \in Marks :
           \E r \in {place_anchor_bound(self, a, p)} :
           /\ Representable(r)
           /\ self' = r
           /\ size0' = size(r)
    /\ last' = [op |-> "other"]
    /\ UNCHANGED <<debug, panicked, ret>>

\* Rect::move_on_grid
MoveOnGrid ==
    /\ ~panicked
    /\ \E x \in GridSteps, y \in GridSteps :
           LET x_offset == width(self) * x
               y_offset == height(self) * y
           IN  \E r \in {Rect(pos(self.min.x + x_offset,
                                  self.min.y + y_offset),
                              pos(self.max.x + x_offset,
                                  self.max.y + y_offset))} :
               /\ Representable(r)
               /\ self' = r
               /\ size0' = size(r)
    /\ last' = [op |-> "other"]
    /\ UNCHANGED <<debug, panicked, ret>>

\* Rect::set_uv_pos, with Rect::uv_pos.
SetUvPos ==
    /\ ~panicked
    /\ \E uv \in UVs, p \in Marks :
           LET uv_pos == pos(lerp(self.min.x, self.max.x, uv.x),
                             lerp(self.min.y, self.max.y, uv.y))
               diff   == pos(p.x - uv_pos.x, p.y - uv_pos.y)
           IN  \E r \in {Rect(pos(self.min.x + diff.x, self.min.y + diff.y),
                              pos(self.max.x + diff.x,
                                  self.max.y + diff.y))} :
               /\ Representable(r)
               /\ self' = r
               /\ size0' = size(r)
    /\ last' = [op |-> "other"]
    /\ UNCHANGED <<debug, panicked, ret>>

\* Rect::inv_translate, and SubAssign<Pos> for Rect, which has the same body.
InvTranslate ==
    /\ ~panicked
    /\ \E offset \in Moves :
           \E r \in {Rect(pos(self.min.x - offset.x, self.min.y - offset.y),
                          pos(self.max.x - offset.x,
                              self.max.y - offset.y))} :
           /\ Representable(r)
           /\ self' = r
           /\ size0' = size(r)
    /\ last' = [op |-> "other"]
    /\ UNCHANGED <<debug, panicked, ret>>

\* Rect::set_scale, set_scale_centered, set_scale_anchored: the set_size
\* method of the same suffix with the size Size::scale returns.
SetScale ==
    /\ ~panicked
    /\ \E scalar \in Scalars :
       \E out \in resized(self, Size_new(width(self) * scalar,
                                         height(self) * scalar)) :
           /\ Representable(out.rect)
           /\ panicked' = (debug /\ ~out.ok)
           /\ self' = IF debug /\ ~out.ok THEN self ELSE out.rect
           /\ size0' = size(self')
    /\ last' = [op |-> "other"]
    /\ UNCHANGED <<debug, ret>>

\* Rect::set_relative_position
SetRelativePosition ==
    /\ ~panicked
    /\ \E pivot \in UVs, p \in Marks :
           LET min_offset == sub_dims(self.min, pivot.x, pivot.y)
               max_offset == sub_dims(self.max, pivot.x, pivot.y)
           IN  \E r \in {Rect(add_dims(p, min_offset.x, min_offset.y),
                              add_dims(p, max_offset.x, max_offset.y))} :
               /\ Representable(r)
               /\ self' = r
               /\ size0' = size(r)
    /\ last' = [op |-> "other"]
    /\ UNCHANGED <<debug, panicked, ret>>

\* Rect::apply_padding and remove_margin (the first rect), apply_margin and
\* remove_padding (the second).  A Padding and a Margin have the same four
\* fields.
ApplyInsets ==
    /\ ~panicked
    /\ \E m \in Insets :
           \E r \in {Rect(pos(self.min.x + m.left, self.min.y + m.top),
                          pos(self.max.x - m.right, self.max.y - m.bottom)),
                     Rect(pos(self.min.x - m.left, self.min.y - m.top),
                          pos(self.max.x + m.right,
                              self.max.y + m.bottom))} :
           /\ Representable(r)
           /\ self' = r
           /\ size0' = size(r)
    /\ last' = [op |-> "other"]
    /\ UNCHANGED <<debug, panicked, ret>>

\* Rect::swap_lengths, centered_swap_lengths, anchored_swap_lengths: set_size,
\* set_size_centered and from_anchored_pivot with the size Size::swap_dims
\* returns.
SwapLengths ==
    /\ ~panicked
    /\ \E out \in resized(self, swap_dims(size(self))) :
           /\ Representable(out.rect)
           /\ panicked' = (debug /\ ~out.ok)
           /\ self' = IF debug /\ ~out.ok THEN self ELSE out.rect
           /\ size0' = size(self')
    /\ last' = [op |-> "other"]
    /\ UNCHANGED <<debug, ret>>

\* Rect::extend_to_fit
ExtendToFit ==
    /\ ~panicked
    /\ \E rect \in [min : Marks, max : Marks] :
           \E r \in {Rect(pos(f32_min(self.min.x, rect.min.x),
                              f32_min(self.min.y, rect.min.y)),
                          pos(f32_max(self.max.x, rect.max.x),
                              f32_max(self.max.y, rect.max.y)))} :
           /\ Representable(r)
           /\ self' = r
           /\ size0' = size(r)
    /\ last' = [op |-> "other"]
    /\ UNCHANGED <<debug, panicked, ret>>

\* AddAssign<Size> and SubAssign<Size> for Rect.
AssignSize ==
    /\ ~panicked
    /\ \E rhs \in Resizes :
           \E r \in {[self EXCEPT !.max =
                          add_dims(self.max, rhs.width, rhs.height)],
                     [self EXCEPT !.max =
                          sub_dims(self.max, rhs.width, rhs.height)]} :
           /\ Representable(r)
           /\ self' = r
           /\ size0' = size(r)
    /\ last' = [op |-> "other"]
    /\ UNCHANGED <<debug, panicked, ret>>

\* A write to one of the public fields min and max.
WriteField ==
    /\ ~panicked
    /\ \E p \in Marks :
           \E r \in {[self EXCEPT !.min = p], [self EXCEPT !.max = p]} :
           /\ Representable(r)
           /\ self' = r
           /\ size0' = size(r)
    /\ last' = [op |-> "other"]
    /\ UNCHANGED <<debug, panicked, ret>>

Next ==
    \/ PlaceAnchor
    \/ MoveToAnchor
    \/ Translate
    \/ Fix
    \/ ExtendToFit
    \/ SetCornerBound
    \/ WriteField
    \/ PlaceAnchorBound
    \/ MoveOnGrid
    \/ SwapLengths
    \/ SetUvPos
    \/ InvTranslate
    \/ SetRelativePosition
    \/ SetEdgeBound
    \/ SetEdge
    \/ SetScale
    \/ ApplyInsets
    \/ AssignSize
    \/ SetWidth
    \/ SetHeight
    \/ SetSize

Spec == Init /\ [][Next]_vars

----------------------------------------------------------------------------
\* One call of a pure query on a Rect value.  Rect has public fields, so the
\* receiver is any pair of corners, well-formed or not.

InitCall ==
    /\ self \in AllRects
    /\ size0 = size(self)
    /\ debug \in BOOLEAN
    /\ panicked = FALSE
    /\ last = [op |-> "none"]
    /\ ret = Void

CallContains ==
    /\ last.op = "none"
    /\ \E p \in Probes :
           /\ last' = [op |-> "contains", pos |-> p]
           /\ ret' = contains(self, p)
    /\ UNCHANGED <<self, size0, debug, panicked>>

CallSdf ==
    /\ last.op = "none"
    /\ \E p \in Probes :
           /\ last' = [op |-> "sdf", pos |-> p]
           /\ ret' = sdf(self, p)
           /\ panicked' = sdf(self, p).panic
    /\ UNCHANGED <<self, size0, debug>>

CallClosestPoint ==
    /\ last.op = "none"
    /\ \E p \in Probes :
           /\ last' = [op |-> "closest_point", pos |-> p]
           /\ ret' = closest_point(self, p)
           /\ panicked' = closest_point(self, p).panic
    /\ UNCHANGED <<self, size0, debug>>

CallSnapToRect ==
    /\ last.op = "none"
    /\ \E p \in Probes :
           /\ last' = [op |-> "snap_to_rect", pos |-> p]
           /\ ret' = snap_to_rect(p, self)
           /\ panicked' = snap_to_rect(p, self).panic
    /\ UNCHANGED <<self, size0, debug>>

CallIntersection ==
    /\ last.op = "none"
    /\ \E other \in AllRects :
           /\ last' = [op |-> "intersection", other |-> other]
           /\ panicked' = (debug /\ ~intersection_asserts(self, other))
           /\ ret' = IF debug /\ ~intersection_asserts(self, other)
                     THEN Void
                     ELSE intersection(self, other)
    /\ UNCHANGED <<self, size0, debug>>

CallWithPlacedAnchor ==
    /\ last.op = "none"
    /\ \E a \in Anchors, p \in Points :
           /\ last' = [op |-> "with_placed_anchor", anchor |-> a, pos |-> p]
           /\ ret' = with_placed_anchor(self, a, p)
    /\ UNCHANGED <<self, size0, debug, panicked>>

CallMovedToAnchor ==
    /\ last.op = "none"
    /\ \E a \in Anchors :
           /\ last' = [op |-> "moved_to_anchor", anchor |-> a]
           /\ ret' = moved_to_anchor(self, a)
    /\ UNCHANGED <<self, size0, debug, panicked>>

CallOutsideRect ==
    /\ last.op = "none"
    /\ \E rect \in AllRects :
           /\ last' = [op |-> "outside_rect", other |-> rect]
           /\ ret' = outside_rect(self, rect)
    /\ UNCHANGED <<self, size0, debug, panicked>>

CallSplitFromLeft ==
    /\ last.op = "none"
    /\ \E split \in SplitLens :
           /\ last' = [op |-> "split_from_left", split |-> split]
           /\ ret' = split_from_left(self, split)
    /\ UNCHANGED <<self, size0, debug, panicked>>

CallSplitFromTop ==
    /\ last.op = "none"
    /\ \E split \in SplitLens :
           /\ last' = [op |-> "split_from_top", split |-> split]
           /\ ret' = split_from_top(self, split)
    /\ UNCHANGED <<self, size0, debug, panicked>>

CallSplitFromRight ==
    /\ last.op = "none"
    /\ \E split \in SplitLens :
           /\ last' = [op |-> "split_from_right", split |-> split]
           /\ ret' = split_from_right(self, split)
    /\ UNCHANGED <<self, size0, debug, panicked>>

CallSplitFromBottom ==
    /\ last.op = "none"
    /\ \E split \in SplitLens :
           /\ last' = [op |-> "split_from_bottom", split |-> split]
           /\ ret' = split_from_bottom(self, split)
    /\ UNCHANGED <<self, size0, debug, panicked>>

CallIntoQuadrants ==
    /\ last.op = "none"
    /\ last' = [op |-> "into_quadrants"]
    /\ panicked' = (debug /\ ~into_quadrants_asserts(self))
    /\ ret' = IF debug /\ ~into_quadrants_asserts(self)
              THEN Void
              ELSE into_quadrants(self)
    /\ UNCHANGED <<self, size0, debug>>

\* self.into_quadrants()[(col, row)]
CallQuadrantIndex ==
    /\ last.op = "none"
    /\ \E col \in 0..1, row \in 0..1 :
           LET ok == /\ into_quadrants_asserts(self)
                     /\ QuadSubdivide_index_asserts(into_quadrants(self),
                                                    <<col, row>>)
           IN  /\ last' = [op |-> "index", col |-> col, row |-> row]
               /\ panicked' = (debug /\ ~ok)
               /\ ret' = IF debug /\ ~ok
                         THEN Void
                         ELSE QuadSubdivide_index(into_quadrants(self),
                                                  <<col, row>>)
    /\ UNCHANGED <<self, size0, debug>>

CallHandleRect ==
    /\ last.op = "none"
    /\ \E a \in Anchors, placement \in Placements, hsize \in HandleSizes :
           /\ last' = [op |-> "handle_rect", anchor |-> a,
                        placement |-> placement, hsize |-> hsize]
           /\ ret' = handle_rect(self, a, placement, hsize)
    /\ UNCHANGED <<self, size0, debug, panicked>>

\* self + margin
CallAddMargin ==
    /\ last.op = "none"
    /\ \E margin \in Margins :
           /\ last' = [op |-> "Add<Margin>", margin |-> margin]
           /\ panicked' = (debug /\ ~add_margin_centered_asserts(self, margin))
           /\ ret' = IF debug /\ ~add_margin_centered_asserts(self, margin)
                     THEN Void
                     ELSE Rect_add_Margin(self, margin)
    /\ UNCHANGED <<self, size0, debug>>

\* self + margin.to_padding()
CallAddPadding ==
    /\ last.op = "none"
    /\ \E margin \in Margins :
           LET padding == to_padding(margin)
           IN  /\ last' = [op |-> "Add<Padding>", margin |-> margin,
                            padding |-> padding]
               /\ panicked' = (debug /\ ~add_padding_asserts(self, padding))
               /\ ret' = IF debug /\ ~add_padding_asserts(self, padding)
                         THEN Void
                         ELSE Rect_add_Padding(self, padding)
    /\ UNCHANGED <<self, size0, debug>>

CallAddMarginCentered ==
    /\ last.op = "none"
    /\ \E margin \in Margins :
           /\ last' = [op |-> "add_margin_centered", margin |-> margin]
           /\ panicked' = (debug /\ ~add_margin_centered_asserts(self, margin))
           /\ ret' = IF debug /\ ~add_margin_centered_asserts(self, margin)
                     THEN Void
                     ELSE add_margin_centered(self, margin)
    /\ UNCHANGED <<self, size0, debug>>

CallSubMarginCentered ==
    /\ last.op = "none"
    /\ \E margin \in Margins :
           /\ last' = [op |-> "sub_margin_centered", margin |-> margin]
           /\ panicked' = (debug /\ ~sub_margin_centered_asserts(self, margin))
           /\ ret' = IF debug /\ ~sub_margin_centered_asserts(self, margin)
                     THEN Void
                     ELSE sub_margin_centered(self, margin)
    /\ UNCHANGED <<self, size0, debug>>

\* a.partial_cmp(&b)
CallPartialCmp ==
    /\ last.op = "none"
    /\ \E a \in Points, b \in Points :
           /\ last' = [op |-> "partial_cmp", a |-> a, b |-> b]
           /\ ret' = partial_cmp(a, b)
           /\ panicked' = (partial_cmp(a, b) = invalid("unreachable"))
    /\ UNCHANGED <<self, size0, debug>>

CallCardinal ==
    /\ last.op = "none"
    /\ \E p \in Vectors :
           /\ last' = [op |-> "cardinal", pos |-> p]
           /\ ret' = cardinal(p)
    /\ UNCHANGED <<self, size0, debug, panicked>>

CallIsPrimary ==
    /\ last.op = "none"
    /\ \E c \in Cardinals :
           /\ last' = [op |-> "is_primary", cardinal |-> c]
           /\ ret' = Cardinal_is_primary(c)
    /\ UNCHANGED <<self, size0, debug, panicked>>

CallIsSecondary ==
    /\ last.op = "none"
    /\ \E c \in Cardinals :
           /\ last' = [op |-> "is_secondary", cardinal |-> c]
           /\ ret' = Cardinal_is_secondary(c)
    /\ UNCHANGED <<self, size0, debug, panicked>>

CallSwapDims ==
    /\ last.op = "none"
    /\ \E s \in Sizes :
           /\ last' = [op |-> "swap_dims", size |-> s]
           /\ ret' = swap_dims(s)
    /\ UNCHANGED <<self, size0, debug, panicked>>

CallSwappedLengths ==
    /\ last.op = "none"
    /\ last' = [op |-> "swapped_lengths"]
    /\ panicked' = (debug /\ ~swapped_lengths_asserts(self))
    /\ ret' = IF debug /\ ~swapped_lengths_asserts(self)
              THEN Void
              ELSE swapped_lengths(self)
    /\ UNCHANGED <<self, size0, debug>>

CallWithSize ==
    /\ last.op = "none"
    /\ \E s \in Sizes :
           /\ last' = [op |-> "with_size", size |-> s]
           /\ panicked' = (debug /\ ~with_size_asserts(self, s))
           /\ ret' = IF debug /\ ~with_size_asserts(self, s)
                     THEN Void
                     ELSE with_size(self, s)
    /\ UNCHANGED <<self, size0, debug>>

\* set_size on a copy of self; the copy is returned.
CallSetSize ==
    /\ last.op = "none"
    /\ \E s \in Sizes :
           /\ last' = [op |-> "set_size", size |-> s]
           /\ ret' = set_size(self, s)
    /\ UNCHANGED <<self, size0, debug, panicked>>

CallPerpCw ==
    /\ last.op = "none"
    /\ \E p \in Vectors :
           /\ last' = [op |-> "perp_cw", pos |-> p]
           /\ ret' = perp_cw(p)
    /\ UNCHANGED <<self, size0, debug, panicked>>

CallPerpCcw ==
    /\ last.op = "none"
    /\ \E p \in Vectors :
           /\ last' = [op |-> "perp_ccw", pos |-> p]
           /\ ret' = perp_ccw(p)
    /\ UNCHANGED <<self, size0, debug, panicked>>

CallAlignMin ==
    /\ last.op = "none"
    /\ \E a \in Aligns, min \in Coords, max \in Coords,
           length \in HandleSizes :
           /\ last' = [op |-> "align_min", align |-> a, min |-> min,
                        max |-> max, length |-> length]
           /\ ret' = align_min(a, min, max, length)
    /\ UNCHANGED <<self, size0, debug, panicked>>

CallAlignMax ==
    /\ last.op = "none"
    /\ \E a \in Aligns, min \in Coords, max \in Coords,
           length \in HandleSizes :
           /\ last' = [op |-> "align_max", align |-> a, min |-> min,
                        max |-> max, length |-> length]
           /\ ret' = align_max(a, min, max, length)
    /\ UNCHANGED <<self, size0, debug, panicked>>

CallOpposite ==
    /\ last.op = "none"
    /\ \E d \in Axials :
           /\ last' = [op |-> "opposite", axial |-> d]
           /\ ret' = opposite(d)
    /\ UNCHANGED <<self, size0, debug, panicked>>

CallSubdivisionContainingRect ==
    /\ last.op = "none"
    /\ \E rect \in AllRects, cols \in Counts, rows \in Counts :
           LET ok == subdivision_containing_rect_asserts(self, rect,
                                                         cols, rows)
           IN  /\ last' = [op |-> "subdivision_containing_rect",
                            other |-> rect, cols |-> cols, rows |-> rows]
               /\ panicked' = (debug /\ ~ok)
               /\ ret' = IF debug /\ ~ok
                         THEN Void
                         ELSE subdivision_containing_rect(self, rect,
                                                          cols, rows)
    /\ UNCHANGED <<self, size0, debug>>

CallNineSlice ==
    /\ last.op = "none"
    /\ \E placement \in Placements, hsize \in HandleSizes :
           /\ last' = [op |-> "NineSlice::from_rect",
                        placement |-> placement, hsize |-> hsize]
           /\ ret' = NineSlice_from_rect(self, placement, hsize)
    /\ UNCHANGED <<self, size0, debug, panicked>>

CallInflate ==
    /\ last.op = "none"
    /\ \E expand \in Offsets :
           /\ last' = [op |-> "inflate", expand |-> expand]
           /\ panicked' = (debug /\ ~inflate_asserts(self, expand))
           /\ ret' = IF debug /\ ~inflate_asserts(self, expand)
                     THEN Void
                     ELSE inflate(self, expand)
    /\ UNCHANGED <<self, size0, debug>>

NextCall ==
    \/ CallContains
    \/ CallSdf
    \/ CallClosestPoint
    \/ CallSnapToRect
    \/ CallIntersection
    \/ CallWithPlacedAnchor
    \/ CallMovedToAnchor
    \/ CallOutsideRect
    \/ CallSplitFromLeft
    \/ CallSplitFromTop
    \/ CallSplitFromRight
    \/ CallSplitFromBottom
    \/ CallIntoQuadrants
    \/ CallQuadrantIndex
    \/ CallHandleRect
    \/ CallAddMargin
    \/ CallAddPadding
    \/ CallAddMarginCentered
    \/ CallSubMarginCentered
    \/ CallPartialCmp
    \/ CallCardinal
    \/ CallIsPrimary
    \/ CallIsSecondary
    \/ CallSwapDims
    \/ CallSwappedLengths
    \/ CallWithSize
    \/ CallSetSize
    \/ CallPerpCw
    \/ CallPerpCcw
    \/ CallAlignMin
    \/ CallAlignMax
    \/ CallOpposite
    \/ CallSubdivisionContainingRect
    \/ CallNineSlice
    \/ CallInflate

SpecCall == InitCall /\ [][NextCall]_vars

----------------------------------------------------------------------------
\* Claims.

\* The constructors that take a size, and the size each was given.
SizedConstructors ==
    {"new", "from_min_size", "square_from_min_size", "centered",
     "centered_square", "from_anchored_pivot"}

\* C1: every Rect produced by Rect::new, from_min_size, square_from_min_size,
\* centered, centered_square or from_anchored_pivot (any anchor) from a size
\* with width >= 0 and height >= 0 is well-formed, and from_points produces a
\* well-formed Rect from any two points in either order.
C1_ConstructorsWellFormed ==
    /\ (last.op \in SizedConstructors /\ Size_is_positive(last.size))
           => (~panicked /\ WellFormed(self))
    /\ last.op = "from_points" => (~panicked /\ WellFormed(self))

\* C1 witness: from_points was given its points in descending order on both
\* axes and returned a rect of positive area.
C1_Witness ==
    /\ last.op = "from_points"
    /\ last.points[1].x > last.points[2].x
    /\ last.points[1].y > last.points[2].y
    /\ self = Rect(last.points[2], last.points[1])

\* C2: for a well-formed rect, any anchor a and any point p,
\* rect.with_placed_anchor(a, p).anchor(a) == p.
C2_AnchorRoundTrip ==
    (last.op = "with_placed_anchor" /\ WellFormed(self))
        => anchor(ret, last.anchor) = last.pos

\* C2 witness: the center of a rect of positive area was placed at a point
\* that is not its center.
C2_Witness ==
    /\ last.op = "with_placed_anchor"
    /\ last.anchor = "Center"
    /\ width(self) > 0 /\ height(self) > 0
    /\ center(self) # last.pos
    /\ center(ret) = last.pos

\* C3: starting from any well-formed rect, after any sequence of place_anchor,
\* move_to_anchor and translate calls the width and the height are the ones
\* the sequence started with and the rect is well-formed.  The sequence
\* starts at the rect a constructor or any other call left (size0 is its
\* size, and it was well-formed iff size0 is positive).
C3_SizePreserved ==
    (~panicked /\ Size_is_positive(size0))
        => (size(self) = size0 /\ WellFormed(self))

\* C3 witness: a rect of positive area was moved, by one of the three calls,
\* to a place that reaches left of and above every input point.
C3_Witness ==
    /\ last.op = "moved"
    /\ size0.width > 0 /\ size0.height > 0
    /\ self.min.x < 0 /\ self.min.y < 0
    /\ size(self) = size0

\* C4: for a well-formed rect and each of the 8 non-center anchors a,
\* rect.moved_to_anchor(a).moved_to_anchor(a.invert()) is the rect itself.
C4_OppositeAnchorInvolution ==
    (last.op = "moved_to_anchor" /\ last.anchor \in PERIMETER
         /\ WellFormed(self))
        => moved_to_anchor(ret, invert(last.anchor)) = self

\* C4 witness: a rect of positive area was moved to its left-bottom anchor,
\* which displaced it on both axes.
C4_Witness ==
    /\ last.op = "moved_to_anchor"
    /\ last.anchor = "LeftBottom"
    /\ width(self) > 0 /\ height(self) > 0
    /\ ret.min.x # self.min.x /\ ret.min.y # self.min.y
    /\ moved_to_anchor(ret, "RightTop") = self

\* C5: contains is the half-open test min <= p < max on both axes: a point
\* on the right or bottom edge is not contained, and a rect with min == max
\* contains no point.
C5_ContainsHalfOpen ==
    last.op = "contains" =>
        LET p == last.pos
        IN  /\ ret <=> (/\ self.min.x <= p.x /\ p.x < self.max.x
                        /\ self.min.y <= p.y /\ p.y < self.max.y)
            /\ (p.x = self.max.x \/ p.y = self.max.y) => ~ret
            /\ self.min = self.max => ~ret

\* C5 witness: a point on the right edge of a rect of positive area, between
\* its top and its bottom, was tested and found not contained.
C5_Witness ==
    /\ last.op = "contains"
    /\ self.min.x < self.max.x
    /\ last.pos.x = self.max.x
    /\ self.min.y <= last.pos.y /\ last.pos.y < self.max.y
    /\ ret = FALSE

\* p lies strictly inside r on both axes.
StrictlyInside(r, p) ==
    /\ r.min.x < p.x /\ p.x < r.max.x
    /\ r.min.y < p.y /\ p.y < r.max.y

\* C6 as stated: for a well-formed rect, sdf(p) < 0 iff contains(p).
C6_SdfIffContains ==
    (last.op = "sdf" /\ WellFormed(self))
        => (/\ ~ret.panic
            /\ IsNegative(ret.value) <=> contains(self, last.pos))

\* C6 amended: for a well-formed rect, sdf(p) < 0 iff p is strictly inside
\* (min < p < max on both axes); sdf(p) < 0 implies contains(p), and a
\* contained point with sdf(p) >= 0 lies on the left or top edge and has
\* sdf(p) == 0.
C6_SdfIffStrictlyInside ==
    (last.op = "sdf" /\ WellFormed(self))
        => (/\ ~ret.panic
            /\ IsNegative(ret.value) <=> StrictlyInside(self, last.pos)
            /\ IsNegative(ret.value) => contains(self, last.pos)
            /\ (contains(self, last.pos) /\ ~IsNegative(ret.value))
                   => (/\ ret.value = Num(0)
                       /\ \/ last.pos.x = self.min.x
                          \/ last.pos.y = self.min.y))

\* C6 witness: sdf of a contained point on the left edge, below the top
\* edge, returned 0.
C6_Witness ==
    /\ last.op = "sdf"
    /\ WellFormed(self)
    /\ last.pos.x = self.min.x
    /\ self.min.y < last.pos.y
    /\ contains(self, last.pos)
    /\ ret = Returns(Num(0))

\* The 9 combinations of (p.x >= min.x, p.x < max.x, p.y >= min.y,
\* p.y < max.y) that do not panic.
ReachableBands ==
    {m \in BOOLEAN \X BOOLEAN \X BOOLEAN \X BOOLEAN :
        (m[1] \/ m[2]) /\ (m[3] \/ m[4])}

\* C7: for a well-formed rect sdf and closest_point never panic and the
\* combination they match on is one of 9; a panic happens only with
\* min > max on an axis, the axis (or axes) its message names.
C7_NoInvalidBranch ==
    last.op \in {"sdf", "closest_point"} =>
        /\ Cardinality(ReachableBands) = 9
        /\ WellFormed(self) =>
               (~ret.panic /\ band(self, last.pos) \in ReachableBands)
        /\ ret.panic <=> band(self, last.pos) \notin ReachableBands
        /\ ret.panic =>
               /\ self.min.x > self.max.x \/ self.min.y > self.max.y
               /\ ret.message = "min.x is greater than max.x"
                      => self.min.x > self.max.x
               /\ ret.message = "min.y is greater than max.y"
                      => self.min.y > self.max.y
               /\ ret.message = "min is greater than max"
                      => (self.min.x > self.max.x /\ self.min.y > self.max.y)

\* C7 witness: sdf returned for a point right of and below a well-formed
\* rect of positive area (the combination (true, false, true, false)).
C7_Witness ==
    /\ last.op = "sdf"
    /\ self.min.x < self.max.x /\ self.min.y < self.max.y
    /\ band(self, last.pos) = <<TRUE, FALSE, TRUE, FALSE>>
    /\ last.pos.x > self.max.x /\ last.pos.y > self.max.y
    /\ ~ret.panic

\* How far v lies outside [lo, hi]; 0 inside.
Excess(v, lo, hi) == f32_max(f32_max(lo - v, v - hi), 0)

\* The smallest of the distances from p to the four edge lines of r.
NearestEdge(r, p) ==
    f32_min(f32_min(p.x - r.min.x, r.max.x - p.x),
            f32_min(p.y - r.min.y, r.max.y - p.y))

\* C8: for a well-formed rect, sdf(p) is minus the distance to the nearest
\* edge when p is contained; otherwise it is the non-negative distance whose
\* square is ex^2 + ey^2, ex and ey being how far p lies outside the rect on
\* each axis (one of them 0 in an axis band, both possibly positive past a
\* corner).
C8_SdfReference ==
    (last.op = "sdf" /\ WellFormed(self)) =>
        LET p  == last.pos
            ex == Excess(p.x, self.min.x, self.max.x)
            ey == Excess(p.y, self.min.y, self.max.y)
        IN  /\ ~ret.panic
            /\ contains(self, p) => ret.value = Num(-NearestEdge(self, p))
            /\ ~contains(self, p) =>
                   /\ ~IsNegative(ret.value)
                   /\ Squared(ret.value) = ex * ex + ey * ey
                   /\ (ex = 0 \/ ey = 0) => ret.value = Num(ex + ey)

\* C8 witness: sdf of a point right of and above a rect, at a distance from
\* the right-top corner that is not an integer.
C8_Witness ==
    /\ last.op = "sdf"
    /\ WellFormed(self)
    /\ last.pos.x > self.max.x /\ last.pos.y < self.min.y
    /\ ~ret.panic
    /\ ret.value.root
    /\ ret.value.v = distance_squared(right_top(self), last.pos)

\* v clamped into [lo, hi].
Clamped(v, lo, hi) == f32_max(lo, f32_min(v, hi))

\* C9: for a well-formed rect, closest_point(p) (and p.snap_to_rect(rect)) of
\* a point that is not contained is p with each coordinate clamped into
\* [min, max]; of a contained point it is p with one coordinate replaced by
\* that of an edge at the minimum distance among left, right, top, bottom.
C9_ClosestPoint ==
    (last.op \in {"closest_point", "snap_to_rect"} /\ WellFormed(self)) =>
        LET p == last.pos
            c == ret.value
        IN  /\ ~ret.panic
            /\ ~contains(self, p) =>
                   c = pos(Clamped(p.x, self.min.x, self.max.x),
                           Clamped(p.y, self.min.y, self.max.y))
            /\ contains(self, p) =>
                   /\ \/ c.y = p.y /\ c.x \in {self.min.x, self.max.x}
                      \/ c.x = p.x /\ c.y \in {self.min.y, self.max.y}
                   /\ distance_squared(p, c)
                          = NearestEdge(self, p) * NearestEdge(self, p)

\* C9 witness: closest_point of a contained point whose nearest edge is the
\* bottom one, strictly nearer than the other three.
C9_Witness ==
    /\ last.op = "closest_point"
    /\ WellFormed(self)
    /\ contains(self, last.pos)
    /\ self.max.y - last.pos.y < last.pos.y - self.min.y
    /\ self.max.y - last.pos.y < last.pos.x - self.min.x
    /\ self.max.y - last.pos.y < self.max.x - last.pos.x
    /\ ret = Returns(pos(last.pos.x, self.max.y))

\* C10: for well-formed rects a and b, a.intersection(b) == b.intersection(a).
C10_IntersectionSymmetric ==
    (last.op = "intersection" /\ WellFormed(self) /\ WellFormed(last.other))
        => (~panicked /\ ret = intersection(last.other, self))

\* C10 witness: two different well-formed rects overlap only in part and
\* their intersection is a third rect.
C10_Witness ==
    /\ last.op = "intersection"
    /\ WellFormed(self) /\ WellFormed(last.other)
    /\ ~panicked
    /\ ret.some
    /\ ret.value # self /\ ret.value # last.other
    /\ width(ret.value) > 0 /\ height(ret.value) > 0

\* C11: for well-formed rects a and b, a.intersection(b) is None exactly when
\* a.intersects(b) is false; otherwise it is Some(r) with r well-formed,
\* contained in both a and b, and for every point p, r.contains(p) iff
\* a.contains(p) and b.contains(p).
C11_IntersectionReference ==
    (last.op = "intersection" /\ WellFormed(self) /\ WellFormed(last.other))
        => /\ ~panicked
           /\ ret = None <=> ~intersects(self, last.other)
           /\ ret # None =>
                  /\ ret.some
                  /\ WellFormed(ret.value)
                  /\ contains_rect(self, ret.value)
                  /\ contains_rect(last.other, ret.value)
                  /\ \A p \in Probes :
                         contains(ret.value, p)
                             <=> (contains(self, p) /\ contains(last.other, p))

\* C11 witness: two well-formed rects overlap at a corner of each, and the
\* intersection is the rect between the two corners.
C11_Witness ==
    /\ last.op = "intersection"
    /\ self.min.x < last.other.min.x /\ last.other.min.x < self.max.x
    /\ self.max.x < last.other.max.x
    /\ self.min.y < last.other.min.y /\ last.other.min.y < self.max.y
    /\ self.max.y < last.other.max.y
    /\ ret = Some(Rect(last.other.min, self.max))

\* C12 as stated: for well-formed rects a and b (rects that only touch along
\* an edge included), a.outside_rect(b) == !a.intersects(&b) and
\* a.outside_rect(b) == b.outside_rect(a).
C12_OutsideIffDisjoint ==
    (last.op = "outside_rect" /\ WellFormed(self) /\ WellFormed(last.other))
        => /\ ret = ~intersects(self, last.other)
           /\ ret = outside_rect(last.other, self)

\* The smallest rect that holds both a and b.
Bounding(a, b) == Rect(Pos_min(a.min, b.min), Pos_max(a.max, b.max))

\* C13: for 0 <= length <= extent, split_from_left/top/right/bottom(length)
\* returns first the part of thickness length that touches the named edge and
\* second the remainder; both are well-formed, they share the cut edge, do
\* not intersect, and their bounding rect is the original.
C13_SplitReference ==
    LET horizontal == last.op \in {"split_from_left", "split_from_right"}
        vertical   == last.op \in {"split_from_top", "split_from_bottom"}
        extent     == IF horizontal THEN width(self) ELSE height(self)
    IN  ((horizontal \/ vertical) /\ WellFormed(self)
             /\ 0 <= last.split /\ last.split <= extent)
            => LET first  == ret[1]
                   second == ret[2]
               IN  /\ WellFormed(first) /\ WellFormed(second)
                   /\ ~intersects(first, second)
                   /\ Bounding(first, second) = self
                   /\ horizontal =>
                          /\ width(first) = last.split
                          /\ height(first) = height(self)
                          /\ height(second) = height(self)
                   /\ vertical =>
                          /\ height(first) = last.split
                          /\ width(first) = width(self)
                          /\ width(second) = width(self)
                   /\ last.op = "split_from_left" =>
                          /\ first.min = self.min
                          /\ right_top(first) = second.min
                          /\ right_bottom(first) = left_bottom(second)
                   /\ last.op = "split_from_top" =>
                          /\ first.min = self.min
                          /\ left_bottom(first) = second.min
                          /\ right_bottom(first) = right_top(second)
                   /\ last.op = "split_from_right" =>
                          /\ first.max = self.max
                          /\ first.min = right_top(second)
                          /\ left_bottom(first) = second.max
                   /\ last.op = "split_from_bottom" =>
                          /\ first.max = self.max
                          /\ first.min = left_bottom(second)
                          /\ right_top(first) = second.max

\* C13 witness: a rect of positive area was split from the right, strictly
\* inside its width, into a right part and a wider left part.
C13_Witness ==
    /\ last.op = "split_from_right"
    /\ height(self) > 0
    /\ 0 < last.split /\ 2 * last.split < width(self)
    /\ ret = <<Rect(pos(self.max.x - last.split, self.min.y), self.max),
               Rect(self.min, pos(self.max.x - last.split, self.max.y))>>

\* The quadrant of r in column col (0 left, 1 right) and row row (0 top,
\* 1 bottom): the lines x = min.x, center.x, max.x and y = min.y, center.y,
\* max.y cut r into two columns and two rows.
Quadrant(r, col, row) ==
    LET xs == <<r.min.x, center(r).x, r.max.x>>
        ys == <<r.min.y, center(r).y, r.max.y>>
    IN  Rect(pos(xs[col + 1], ys[row + 1]), pos(xs[col + 2], ys[row + 2]))

\* C14: for a well-formed rect, into_quadrants() returns four well-formed
\* rects of equal width and height that share the midpoint of the original
\* and whose bounding rect is the original; left_top(), right_top(),
\* left_bottom() and right_bottom() return the named quadrant, and indexing
\* with (col, row) in {0,1} x {0,1} returns the quadrant in column col
\* (0 = left) and row row (0 = top).
C14_Quadrants ==
    /\ (last.op = "into_quadrants" /\ WellFormed(self)) =>
           /\ ~panicked
           /\ Len(ret.quadrants) = 4
           /\ \A i \in 1..4 :
                  /\ WellFormed(ret.quadrants[i])
                  /\ 2 * width(ret.quadrants[i]) = width(self)
                  /\ 2 * height(ret.quadrants[i]) = height(self)
                  /\ center(self) \in {left_top(ret.quadrants[i]),
                                        right_top(ret.quadrants[i]),
                                        left_bottom(ret.quadrants[i]),
                                        right_bottom(ret.quadrants[i])}
           /\ Bounding(Bounding(ret.quadrants[1], ret.quadrants[2]),
                        Bounding(ret.quadrants[3], ret.quadrants[4])) = self
           /\ QuadSubdivide_left_top(ret) = Quadrant(self, 0, 0)
           /\ QuadSubdivide_right_top(ret) = Quadrant(self, 1, 0)
           /\ QuadSubdivide_left_bottom(ret) = Quadrant(self, 0, 1)
           /\ QuadSubdivide_right_bottom(ret) = Quadrant(self, 1, 1)
    /\ (last.op = "index" /\ WellFormed(self)) =>
           /\ ~panicked
           /\ ret = Quadrant(self, last.col, last.row)

\* C14 witness: the quadrants of a rect of positive area were indexed with
\* (1, 0), which returned the right top quadrant and not the left bottom one.
C14_Witness ==
    /\ last.op = "index"
    /\ last.col = 1 /\ last.row = 0
    /\ width(self) > 0 /\ height(self) > 0
    /\ ret = Rect(top_center(self), right_center(self))
    /\ ret # Rect(left_center(self), bottom_center(self))

\* C15: for every anchor a, pivot point p and size s with width >= 0 and
\* height >= 0, r = Rect::from_anchored_pivot(a, p, s) satisfies
\* r.anchor(a) == p and r.size() == s.
C15_AnchoredPivot ==
    (last.op = "from_anchored_pivot" /\ Size_is_positive(last.size))
        => /\ ~panicked
           /\ anchor(self, last.anchor) = last.pos
           /\ size(self) = last.size

\* C15 witness: a rect of positive area was constructed with its
\* bottom-center anchor at the pivot, which is then neither corner of it.
C15_Witness ==
    /\ last.op = "from_anchored_pivot"
    /\ last.anchor = "BottomCenter"
    /\ last.size.width > 0 /\ last.size.height > 0
    /\ bottom_center(self) = last.pos
    /\ self.min # last.pos /\ self.max # last.pos

\* The closed rects a and b have a point in common.
Touches(a, b) ==
    /\ a.min.x <= b.max.x /\ b.min.x <= a.max.x
    /\ a.min.y <= b.max.y /\ b.min.y <= a.max.y

\* The x of the vertical edge line of r through anchor a, if there is one,
\* and the y of the horizontal one.
EdgeLinesX(r, a) ==
    CASE a \in {"LeftTop", "LeftCenter", "LeftBottom"}    -> {r.min.x}
      [] a \in {"RightTop", "RightCenter", "RightBottom"} -> {r.max.x}
      [] OTHER                                            -> {}

EdgeLinesY(r, a) ==
    CASE a \in {"LeftTop", "TopCenter", "RightTop"}          -> {r.min.y}
      [] a \in {"LeftBottom", "BottomCenter", "RightBottom"} -> {r.max.y}
      [] OTHER                                               -> {}

\* C16: for a well-formed base rect, each of the 8 perimeter anchors a and a
\* handle size s with 0 < 2*s <= min(width, height): handle_rect(a, Inside, s)
\* is well-formed and contained in the base (contains_rect);
\* handle_rect(a, Outside, s) is well-formed, does not intersect the base and
\* touches it; handle_rect(a, Middle, s) straddles the boundary, extending
\* exactly s/2 on each side of the edge line(s) through that anchor.
C16_HandleRect ==
    (/\ last.op = "handle_rect"
     /\ WellFormed(self)
     /\ last.anchor \in PERIMETER
     /\ 0 < 2 * last.hsize
     /\ 2 * last.hsize <= f32_min(width(self), height(self)))
        => /\ last.placement = "Inside" =>
                  (WellFormed(ret) /\ contains_rect(self, ret))
           /\ last.placement = "Outside" =>
                  /\ WellFormed(ret)
                  /\ ~intersects(self, ret) /\ ~intersects(ret, self)
                  /\ Touches(self, ret)
           /\ last.placement = "Middle" =>
                  /\ WellFormed(ret)
                  /\ \A x \in EdgeLinesX(self, last.anchor) :
                         /\ 2 * (x - ret.min.x) = last.hsize
                         /\ 2 * (ret.max.x - x) = last.hsize
                  /\ \A y \in EdgeLinesY(self, last.anchor) :
                         /\ 2 * (y - ret.min.y) = last.hsize
                         /\ 2 * (ret.max.y - y) = last.hsize

\* C16 witness: the Middle handle of size 2 at the right-bottom corner of a
\* rect that is at least 4 wide and high is the square of side 2 around that
\* corner.
C16_Witness ==
    /\ last.op = "handle_rect"
    /\ last.anchor = "RightBottom" /\ last.placement = "Middle"
    /\ last.hsize = 2
    /\ width(self) >= 4 /\ height(self) >= 4
    /\ ret = Rect(pos(self.max.x - 1, self.max.y - 1),
                  pos(self.max.x + 1, self.max.y + 1))

\* C17: Margin and Padding carry the same values with the opposite effect:
\* m.to_padding() has the fields of m (Margin::from_padding(m.to_padding())
\* == m), r + m moves each side of r outward by the corresponding field and
\* r + m.to_padding() moves each side inward by it (Margin::same(2): grows,
\* respectively shrinks, by 2 on each side).  A result with min > max on an
\* axis is returned in a release build and aborts a debug build.
C17_MarginPaddingOpposite ==
    last.op \in {"Add<Margin>", "Add<Padding>"} =>
        LET m      == last.margin
            sign   == IF last.op = "Add<Margin>" THEN 1 ELSE -1
            moved  == Rect(pos(self.min.x - sign * m.left,
                               self.min.y - sign * m.top),
                           pos(self.max.x + sign * m.right,
                               self.max.y + sign * m.bottom))
        IN  /\ to_padding(m).left = m.left /\ to_padding(m).top = m.top
            /\ to_padding(m).right = m.right
            /\ to_padding(m).bottom = m.bottom
            /\ from_padding(to_padding(m)) = m
            /\ panicked <=> (debug /\ ~WellFormed(moved))
            /\ ~panicked => ret = moved
            /\ (~panicked /\ m = Margin_same(2)) =>
                   /\ width(ret) = width(self) + sign * 4
                   /\ height(ret) = height(self) + sign * 4
                   /\ center(ret) = center(self)

\* C17 witness: Margin::same(2).to_padding() was added to a rect at least 4
\* wide and high, which shrank it by 2 on each side.
C17_Witness ==
    /\ last.op = "Add<Padding>"
    /\ last.margin = Margin_same(2)
    /\ width(self) >= 4 /\ height(self) >= 4
    /\ ret = Rect(add_dims(self.min, 2, 2), sub_dims(self.max, 2, 2))
    /\ Rect_add_Margin(self, last.margin)
           = Rect(sub_dims(self.min, 2, 2), add_dims(self.max, 2, 2))

\* C18 as stated: for every rect r and margin m (left != right or
\* top != bottom included), r.add_margin_centered(m).center() == r.center()
\* and r.sub_margin_centered(m).center() == r.center().
C18_CenterPreserved ==
    (last.op \in {"add_margin_centered", "sub_margin_centered"} /\ ~panicked)
        => center(ret) = center(self)

\* C19: Pos is ordered by the conjunction of the componentwise comparisons,
\* which is a partial order: whenever neither a.le(b) nor a.ge(b) holds,
\* a.partial_cmp(&b) returns None; no call reaches unreachable!().
C19_PartialCmpIncomparable ==
    last.op = "partial_cmp" =>
        LET a == last.a
            b == last.b
        IN  /\ ~panicked
            /\ Pos_le(a, b) <=> (a.x <= b.x /\ a.y <= b.y)
            /\ Pos_ge(a, b) <=> (a.x >= b.x /\ a.y >= b.y)
            /\ (~Pos_le(a, b) /\ ~Pos_ge(a, b)) => ret = None

\* C19 witness: (2, 0) was compared with (0, 2), neither le nor ge the other,
\* and the answer was None.
C19_Witness ==
    /\ last.op = "partial_cmp"
    /\ last.a = pos(2, 0) /\ last.b = pos(0, 2)
    /\ ~Pos_le(last.a, last.b) /\ ~Pos_ge(last.a, last.b)
    /\ ret = None

\* C20: with debug assertions enabled Rect::from_min_max(min, max) aborts
\* whenever min.x > max.x or min.y > max.y, and Rect::new, from_min_size,
\* centered and from_anchored_pivot abort whenever the width or the height is
\* negative; with debug assertions disabled the same calls return the
\* ill-formed rect (negative derived width or height) without error.
C20_DebugAssertions ==
    /\ last.op = "from_min_max" =>
           LET ill == last.min.x > last.max.x \/ last.min.y > last.max.y
           IN  /\ debug => (panicked <=> ill)
               /\ ~debug =>
                      /\ ~panicked
                      /\ self = Rect(last.min, last.max)
                      /\ ill => ~WellFormed(self)
    /\ last.op \in {"new", "from_min_size", "centered", "from_anchored_pivot"}
           => LET negative == last.size.width < 0 \/ last.size.height < 0
              IN  /\ debug => (panicked <=> negative)
                  /\ ~debug =>
                         /\ ~panicked
                         /\ size(self) = last.size
                         /\ negative =>
                                (width(self) < 0 \/ height(self) < 0)

\* C20 witness: a release build returned from Rect::centered, given a
\* negative width, a rect whose max.x lies left of its min.x.
C20_Witness ==
    /\ last.op = "centered"
    /\ ~debug
    /\ last.size.width < 0 /\ last.size.height >= 0
    /\ ~panicked
    /\ self.max.x < self.min.x
    /\ center(self) = last.pos

\* The compass names of the directions of OctantDirs, y up: east at 0
\* degrees, then counter-clockwise.
Compass == <<"E", "Ne", "N", "Nw", "W", "Sw", "S", "Se">>

\* C21 as stated: Pos::cardinal() returns the compass direction of the 45
\* degree octant that holds the angle atan2(-y, x), y down: (1,0) -> E,
\* (1,-1) -> Ne, (0,-1) -> N, (-1,-1) -> Nw, (-1,0) -> W, (-1,1) -> Sw,
\* (0,1) -> S, (1,1) -> Se, and every vector within 22.5 degrees of one of
\* these maps to the same Cardinal.
C21_CardinalOctant ==
    last.op = "cardinal" =>
        \A k \in 0..7 :
            WithinOctant(last.pos.x, -last.pos.y, OctantDirs[k + 1])
                => ret = Compass[k + 1]

\* C22: for every Cardinal c exactly one of c.is_primary() and
\* c.is_secondary() is true; is_primary() is true exactly for N, W, S and E,
\* and is_secondary() exactly for Ne, Nw, Se and Sw.
C22_CardinalRank ==
    /\ last.op = "is_primary" =>
           /\ ret <=> last.cardinal \in {"N", "W", "S", "E"}
           /\ ret <=> ~Cardinal_is_secondary(last.cardinal)
    /\ last.op = "is_secondary" =>
           /\ ret <=> last.cardinal \in {"Ne", "Nw", "Se", "Sw"}
           /\ ret <=> ~Cardinal_is_primary(last.cardinal)

\* C22 witness: is_primary() of East, the variant of discriminant 5, returned
\* true.
C22_Witness ==
    /\ last.op = "is_primary"
    /\ last.cardinal = "E"
    /\ Cardinal_bits(last.cardinal) = 5
    /\ ret = TRUE

\* C23 as stated: Size::swap_dims swaps the width and the height:
\* s.swap_dims() == Size { width: s.height, height: s.width }, so
\* s.swap_dims().swap_dims() == s, and Rect::swapped_lengths() returns a rect
\* with the same min whose width is the old height and whose height is the
\* old width.
C23_SwapDims ==
    /\ last.op = "swap_dims" =>
           /\ ret = Size_new(last.size.height, last.size.width)
           /\ swap_dims(ret) = last.size
    /\ (last.op = "swapped_lengths" /\ ~panicked) =>
           /\ ret.min = self.min
           /\ width(ret) = height(self)
           /\ height(ret) = width(self)

\* C24 as stated: perp_cw rotates 90 degrees to the right and perp_ccw 90
\* degrees to the left: for every p, p.perp_cw().perp_ccw() == p,
\* p.perp_ccw().perp_cw() == p and p.perp_ccw().dot(p) == 0.
C24_PerpInverse ==
    /\ last.op = "perp_cw" => perp_ccw(ret) = last.pos
    /\ last.op = "perp_ccw" =>
           /\ perp_cw(ret) = last.pos
           /\ dot(ret, last.pos) = 0

\* C25 as stated: for every Align a, align_max(min, max, size)
\* - align_min(min, max, size) == size; for Min the region starts at min, for
\* Max it ends at max, and for Center it is centred on the midpoint of min
\* and max (align_min == midpoint - size/2).
C25_AlignRegion ==
    /\ last.op = "align_min" =>
           /\ align_max(last.align, last.min, last.max, last.length) - ret
                  = last.length
           /\ last.align = "Min" => ret = last.min
           /\ last.align = "Max" => ret + last.length = last.max
           /\ last.align = "Center" =>
                  2 * ret = last.min + last.max - last.length
    /\ last.op = "align_max" =>
           /\ ret - align_min(last.align, last.min, last.max, last.length)
                  = last.length
           /\ last.align = "Min" => ret - last.length = last.min
           /\ last.align = "Max" => ret = last.max
           /\ last.align = "Center" =>
                  2 * ret = last.min + last.max + last.length

\* C26 as stated: Axial::opposite() returns the opposite direction for every
\* variant (Right -> Left, Left -> Right, Up -> Down, Down -> Up), so
\* d.opposite().opposite() == d for all four Axial values.
C26_OppositeInvolution ==
    last.op = "opposite" =>
        /\ ret = (CASE last.axial = "Right" -> "Left"
                    [] last.axial = "Left"  -> "Right"
                    [] last.axial = "Up"    -> "Down"
                    [] last.axial = "Down"  -> "Up")
        /\ opposite(ret) = last.axial

\* C27 as stated: for every well-formed rect r and size s >= 0,
\* r.with_size(s) has the same min as r and r.with_size(s).size() == s: it
\* is the rect obtained by calling set_size(s) on a copy of r.
C27_WithSizeIsSetSize ==
    /\ (last.op = "with_size" /\ WellFormed(self)
            /\ Size_is_positive(last.size)) =>
           /\ ~panicked
           /\ ret.min = self.min
           /\ size(ret) = last.size
           /\ ret = set_size(self, last.size)
    /\ (last.op = "set_size" /\ WellFormed(self)
            /\ Size_is_positive(last.size)) =>
           /\ ret.min = self.min
           /\ size(ret) = last.size

\* C28 as stated: for all points a and b, a.le(b) holds if and only if
\* a.partial_cmp(&b) is Some(Less) or Some(Equal), and a.ge(b) if and only
\* if it is Some(Greater) or Some(Equal) (pairs equal on one axis only
\* included); partial_cmp never reaches an unreachable!() arm.
C28_PartialCmpAgrees ==
    last.op = "partial_cmp" =>
        /\ ~panicked
        /\ Pos_le(last.a, last.b) <=> ret \in {Some("Less"), Some("Equal")}
        /\ Pos_ge(last.a, last.b) <=> ret \in {Some("Greater"), Some("Equal")}

\* C29 as stated: for every well-formed rect R at any position, cols >= 1,
\* rows >= 1 and every rect r, R.subdivision_containing_rect(r, cols, rows)
\* is None when R does not contain r, and otherwise Some(c) where c contains
\* r and R contains c.
C29_SubdivisionContainsRect ==
    (last.op = "subdivision_containing_rect" /\ WellFormed(self)
         /\ ~panicked)
        => /\ ~contains_rect(self, last.other) => ret = None
           /\ contains_rect(self, last.other) =>
                  /\ ret # None
                  /\ contains_rect(ret.value, last.other)
                  /\ contains_rect(self, ret.value)

\* The nine rects of a NineSlice.
Slices(n) ==
    <<n.left_top, n.center_top, n.right_top,
      n.left_center, n.center, n.right_center,
      n.left_bottom, n.center_bottom, n.right_bottom>>

\* The smallest rect that holds every rect of the sequence rects.
RECURSIVE BoundingAll(_)
BoundingAll(rects) ==
    IF Len(rects) = 1
    THEN rects[1]
    ELSE Bounding(rects[1], BoundingAll(Tail(rects)))

\* C30: for every well-formed rect r, every size s with
\* 0 < 2*s < min(width, height) and each Placement, the nine rects of
\* NineSlice::from_rect(r, placement, s) are well-formed, pairwise
\* non-intersecting, and their bounding rect is r for Inside, r.inflate(s/2)
\* for Middle and r.inflate(s) for Outside.  The same holds when
\* 2*s == min(width, height).
C30_NineSliceTiles ==
    (/\ last.op = "NineSlice::from_rect"
     /\ WellFormed(self)
     /\ 0 < 2 * last.hsize
     /\ 2 * last.hsize <= f32_min(width(self), height(self)))
        => /\ \A i \in 1..9 : WellFormed(Slices(ret)[i])
           /\ \A i \in 1..9, j \in 1..9 :
                  i # j => ~intersects(Slices(ret)[i], Slices(ret)[j])
           /\ BoundingAll(Slices(ret))
                  = CASE last.placement = "Inside"  -> self
                      [] last.placement = "Middle"  ->
                             inflate(self, half(last.hsize))
                      [] last.placement = "Outside" ->
                             inflate(self, last.hsize)

\* C30 witness: the Middle slices of size 2 of a rect more than 4 wide and
\* high: the center slice has positive area and the bounding rect reaches 1
\* beyond the rect on every side.
C30_Witness ==
    /\ last.op = "NineSlice::from_rect"
    /\ last.placement = "Middle" /\ last.hsize = 2
    /\ width(self) > 4 /\ height(self) > 4
    /\ width(ret.center) > 0 /\ height(ret.center) > 0
    /\ BoundingAll(Slices(ret))
           = Rect(sub_dims(self.min, 1, 1), add_dims(self.max, 1, 1))

====
